---- MODULE Spec2Model ----
(***************************************************************************)
(* A model of the client-side job coordination of Yothalot-PHP:            *)
(*   - the descriptor set (descriptors.h) and the loop's own sets (loop.h) *)
(*   - the job state machine (jobimpl.h) with its temporary queue          *)
(*     (tempqueue.h) on a broker connection (rabbit.h)                     *)
(*   - the pool (pool.h)                                                   *)
(*   - the serialization envelope (serialized.h, data.h)                   *)
(* The program is single threaded: broker events are dispatched only while *)
(* some call steps the event loop, so every blocking call is a sequence of *)
(* steps and all other calls are atomic.                                   *)
(***************************************************************************)
EXTENDS Integers, Sequences, FiniteSets, TLC

VARIABLES
    descriptors,    \* Rabbit::_descriptors, a Descriptors object
    loop,           \* a Loop object: its _read, _write, _all, _highest
    state,          \* JobImpl::_state
    hasRabbit,      \* JobImpl::_rabbit is not a null shared_ptr
    algorithm,      \* Data::_algorithm
    json,           \* JobImpl::_json: the knobs that were set, the reply address
    tempqueue,      \* JobImpl::_tempqueue and the TempQueue it points to
    active,         \* TempQueue::_loop._active
    result,         \* JobImpl::_result
    cleanup,        \* what JobImpl::onReceived did with the directory of the result
    rabbit,         \* Rabbit::_rabbit is not null: the connection is up
    error,          \* Rabbit::_error is not empty
    pubChannels,    \* channels opened by Rabbit::publish and not yet closed
    published,      \* the descriptors the broker got, in order
    answered,       \* the published descriptors the cluster answered
    nextq,          \* the next queue name the broker assigns
    pc,             \* where the (single) thread of the program is
    caller,         \* the public call in progress
    entry,          \* the job as it was when the call in progress began
    call,           \* the last call that returned: its name and result
    crashed,        \* the process was ended by a null dereference
    poolJobs,       \* Pool::_jobs: the keys of the map
    poolHandlers,   \* Pool::_handlers
    jobState,       \* the state of the job behind every Job pointer
    arrived,        \* the jobs whose result reached a socket, in order
    handed,         \* the jobs the pool handed out since the last add
    poolpc,         \* where the thread is in Pool::wait
    poolcall,       \* the last call of the pool: name, result, sizes
    original,       \* the job that is serialized: a JobImpl
    text,           \* the string Job::serialize returned for it
    copy,           \* the JobImpl that Job::unserialize built
    text2,          \* the string Job::serialize returned for the copy
    stage,          \* how far the round trip is
    connection,     \* a Connection object, its string and the object rebuilt from it
    worker,         \* a worker process inside yothalotInit
    data,           \* a job's Data: the members that the knobs write, and the job's state
    looping,        \* a Loop that is run: where run is, and what its last step did
    shared          \* the jobs that share one broker connection, and who waits

descVars == <<descriptors, loop>>

jobVars == <<state, hasRabbit, algorithm, json, tempqueue, active, result, cleanup>>

rabbitVars == <<rabbit, error, pubChannels, published, answered, nextq>>

callVars == <<pc, caller, entry, call, crashed>>

poolVars == <<poolJobs, poolHandlers, jobState, arrived, handed, poolpc, poolcall>>

serVars == <<original, text, copy, text2, stage>>

otherVars == <<connection, worker, data, looping, shared>>

vars == <<descriptors, loop, state, hasRabbit, algorithm, json, tempqueue, active,
          result, cleanup, rabbit, error, pubChannels, published, answered, nextq,
          pc, caller, entry, call, crashed,
          poolJobs, poolHandlers, jobState, arrived, handed, poolpc, poolcall,
          original, text, copy, text2, stage, connection, worker, data, looping,
          shared>>

(***************************************************************************)
(* Bounds                                                                  *)
(***************************************************************************)
\* file descriptors are 0 .. MaxFd
MaxFd == 2

Fds == 0 .. MaxFd

\* AMQP::readable and AMQP::writable, a set of bits
Flags == SUBSET {"readable", "writable"}

\* *_all.rbegin(): the largest member of a non-empty std::set<int>
Largest(S) == CHOOSE x \in S : \A y \in S : y <= x

(***************************************************************************)
(* Descriptors (descriptors.h)                                             *)
(***************************************************************************)
\* Descriptors(): three empty sets, _highest = 0
EmptyDescriptors == [all |-> {}, read |-> {}, write |-> {}, highest |-> 0]

\* mutant of DescriptorsRemove: the maximum is not recomputed
DescriptorsRemoveStale(d, fd) ==
    [d EXCEPT !.all = @ \ {fd}, !.read = @ \ {fd}, !.write = @ \ {fd}]

\* Descriptors::remove(fd)
DescriptorsRemove(d, fd) ==
    LET erased == [d EXCEPT !.all = @ \ {fd}, !.read = @ \ {fd}, !.write = @ \ {fd}]
    IN  IF fd # d.highest THEN erased
        ELSE [erased EXCEPT !.highest = IF erased.all = {} THEN 0 ELSE Largest(erased.all)]

\* Descriptors::add(fd, flags)
DescriptorsAdd(d, fd, flags) ==
    IF flags = {} THEN DescriptorsRemove(d, fd)
    ELSE [all     |-> d.all \cup {fd},
          read    |-> IF "readable" \in flags THEN d.read \cup {fd} ELSE d.read,
          write   |-> IF "writable" \in flags THEN d.write \cup {fd} ELSE d.write,
          highest |-> IF fd > d.highest THEN fd ELSE d.highest]

\* Descriptors::add(const Descriptors &that)
DescriptorsMerge(d, that) ==
    [all     |-> d.all \cup that.all,
     read    |-> d.read \cup that.read,
     write   |-> d.write \cup that.write,
     highest |-> IF that.highest > d.highest THEN that.highest ELSE d.highest]

(***************************************************************************)
(* Loop (loop.h): the same bookkeeping on the loop's own members           *)
(***************************************************************************)
\* Loop::remove(fd)
LoopRemove(l, fd) ==
    LET erased == [l EXCEPT !.all = @ \ {fd}, !.read = @ \ {fd}, !.write = @ \ {fd}]
    IN  IF fd # l.highest THEN erased
        ELSE [erased EXCEPT !.highest = IF erased.all = {} THEN 0 ELSE Largest(erased.all)]

\* Loop::add(fd, flags)
LoopAdd(l, fd, flags) ==
    IF flags = {} THEN LoopRemove(l, fd)
    ELSE [all     |-> l.all \cup {fd},
          read    |-> IF "readable" \in flags THEN l.read \cup {fd} ELSE l.read,
          write   |-> IF "writable" \in flags THEN l.write \cup {fd} ELSE l.write,
          highest |-> IF fd > l.highest THEN fd ELSE l.highest]

(***************************************************************************)
(* The job (jobimpl.h), its descriptor (data.h), its temporary queue       *)
(* (tempqueue.h) and the broker connection (rabbit.h)                      *)
(***************************************************************************)
\* the enum of JobImpl::_state
States == {"initialize", "frozen", "running", "finished"}

\* enum class Algorithm
Algorithms == {"mapreduce", "race", "job"}

\* the setters of JobImpl that tune the descriptor
Knobs == {"maxprocesses", "maxmappers", "maxreducers", "maxfinalizers", "modulo",
          "maxfiles", "maxbytes", "maxrecords", "local"}

\* the largest finalizers.processes of a result
MaxProcesses == 1

\* an empty JSON object, which is what JobImpl::_result starts as; a result
\* is the set of its top-level members "error", "stderr" and "stats" (which
\* stands for any other member), finalizers.processes (-1: no member
\* "finalizers"), the member "directory" (absent, an empty string, a name)
\* and the member "finalize" (absent, not an array, an empty array, an
\* array that lists files)
NoResult == [members |-> {}, finalizers |-> -1, directory |-> "absent", finalize |-> "absent"]

\* the JSON objects the cluster can send back
AllResults ==
    [members    : SUBSET {"error", "stderr", "stats"},
     finalizers : -1 .. MaxProcesses,
     directory  : {"absent", "empty", "named"},
     finalize   : {"absent", "scalar", "empty", "filled"}]

\* the results that reach a job on a temporary queue in the job's
\* specification: an empty object, an object with an "error" member, an
\* object with a "stderr" member, an object with another member
Results ==
    {res \in AllResults : /\ Cardinality(res.members) <= 1
                          /\ res.finalizers = -1
                          /\ res.directory = "absent"
                          /\ res.finalize = "absent"}

\* JSON::Object::size: the number of members
size(res) ==
    Cardinality(res.members) + (IF res.finalizers >= 0 THEN 1 ELSE 0)
    + (IF res.directory # "absent" THEN 1 ELSE 0) + (IF res.finalize # "absent" THEN 1 ELSE 0)

\* _result.object("finalizers").integer("processes"): 0 without the member
processes(res) == IF res.finalizers < 0 THEN 0 ELSE res.finalizers

\* JobImpl::onReceived touched no directory
NoCleanup == [finalize |-> "none", removal |-> "none"]

\* how JobImpl::finalize ends: it returns true, it catches a
\* std::runtime_error and returns false, or an exception of another type
\* leaves it
FinalizeOutcomes == {"done", "failed", "thrown"}

\* how Directory::remove ends for a Directory(name), whose _entry is null:
\* readdir_r is handed the null buffer, so the files and the directory are
\* removed or the process ends; when the directory cannot be opened nothing
\* is removed
RemoveOutcomes == {"removed", "crashed", "kept"}

\* at most MaxTuned different knobs are set on one job
MaxTuned == 1

\* at most MaxPublish descriptors are published
MaxPublish == 2

\* the broker names at most MaxQueues temporary queues
MaxQueues == 2

\* the socket of the broker connection
ConnectionFd == MaxFd

\* JobImpl::isTunable
isTunable(st) == st = "initialize" \/ st = "frozen"

\* Data::isTask
isTask(alg) == alg = "job"

\* mutant of isError: "stderr" counts for every algorithm
isErrorStderr(st, alg, res) ==
    IF st # "finished" THEN FALSE
    ELSE IF size(res) = 0 THEN TRUE
    ELSE IF "stderr" \in res.members THEN TRUE
    ELSE "error" \in res.members

\* JobImpl::isError
isError(st, alg, res) ==
    IF st # "finished" THEN FALSE
    ELSE IF size(res) = 0 THEN TRUE
    ELSE IF isTask(alg) /\ "stderr" \in res.members THEN TRUE
    ELSE "error" \in res.members

\* mutant of Received: the processes of the finalizers are not looked at
ReceivedAnyway(alg, res, fin, rem) ==
    IF isError("finished", alg, res) THEN NoCleanup
    ELSE IF alg # "mapreduce" THEN NoCleanup
    ELSE IF res.directory \in {"absent", "empty"} THEN NoCleanup
    ELSE IF res.finalize \in {"empty", "filled"}
    THEN (IF fin = "thrown" THEN [finalize |-> fin, removal |-> "none"]
          ELSE [finalize |-> fin, removal |-> rem])
    ELSE [finalize |-> "none", removal |-> rem]

\* JobImpl::onReceived after it stored the result res of a job of algorithm
\* alg: what it does with the directory that the result names, when
\* JobImpl::finalize ends as fin and Directory::remove as rem
Received(alg, res, fin, rem) ==
    IF isError("finished", alg, res) THEN NoCleanup
    ELSE IF alg # "mapreduce" \/ processes(res) > 0 THEN NoCleanup
    ELSE IF res.directory \in {"absent", "empty"} THEN NoCleanup
    ELSE IF res.finalize \in {"empty", "filled"}
    THEN (IF fin = "thrown" THEN [finalize |-> fin, removal |-> "none"]
          ELSE [finalize |-> fin, removal |-> rem])
    ELSE [finalize |-> "none", removal |-> rem]

\* Data::publish: the queue that belongs to the algorithm
QueueOf(alg) ==
    CASE alg = "mapreduce" -> "mapreduce"
      [] alg = "race"      -> "races"
      [] OTHER             -> "jobs"

\* JobImpl::_tempqueue == nullptr, and no TempQueue under construction
NoTempQueue ==
    [held |-> FALSE, name |-> 0, ready |-> FALSE, cancelled |-> FALSE, phase |-> "none"]

\* TempQueue::TempQueue up to its event loop: _name is empty, the channel
\* has the declare-queue operation pending
NewTempQueue ==
    [held |-> FALSE, name |-> 0, ready |-> FALSE, cancelled |-> FALSE, phase |-> "declaring"]

\* the phases in which the channel of the temporary queue is open
OpenPhases == {"declaring", "consuming", "cancelling", "removing", "closing"}

\* AMQP::TcpConnection::channels() for a connection that is up: the
\* channels of publish that wait for their close-ok, and the channel of the
\* temporary queue
Channels == pubChannels + (IF tempqueue.phase \in OpenPhases THEN 1 ELSE 0)

\* Rabbit::connect: true when connected; with _error set the loop that
\* waits for a connection is skipped and the result is false.  _rabbit is
\* reset only by onError, which sets _error.
connect == rabbit

\* Loop::step returns false at once: _all is empty
NothingToMonitor == descriptors.all = {}

\* mutant of FlushContinue: only the channels of publish count
FlushContinuePublish == pubChannels > 0

\* Rabbit::flush: the condition of its while loop
FlushContinue == Channels > 0

\* Data::publish and Rabbit::publish after a successful connect(): a
\* throw-away channel publishes the descriptor js; the channel is closed by
\* its destructor and counts as a channel of the connection until the
\* broker confirms
Publish(js) ==
    /\ published' = Append(published, [queue |-> QueueOf(algorithm),
                                       routingkey |-> js.routingkey])
    /\ pubChannels' = pubChannels + 1

\* a public call returns while the job is in state st; the first wait()
\* that returns on a finished job is remembered with what it returned
ReturnIn(op, ret, st) ==
    /\ pc' = "idle"
    /\ caller' = "none"
    /\ call' = [op |-> op, ret |-> ret,
                observed |-> IF op = "wait" /\ st = "finished" /\ call.observed = "none"
                             THEN (IF ret THEN "ok" ELSE "failed")
                             ELSE call.observed]
    /\ UNCHANGED crashed

\* a public call returns and leaves the state of the job as it is
Return(op, ret) == ReturnIn(op, ret, state)

\* a null pointer is dereferenced in the public call c: the process ends
Crash(c) ==
    /\ crashed' = TRUE
    /\ caller' = c
    /\ UNCHANGED <<pc, call>>

\* what a call remembers of the job as it found it
Snapshot == [state |-> state, published |-> Len(published), tempqueue |-> tempqueue,
             json |-> json, result |-> result, observed |-> call.observed]

\* mutant of Started: a finished job is started again
StartedRunning(st) == st = "running"

\* JobImpl::start: the job was started before
Started(st) == st = "running" \/ st = "finished"

(***************************************************************************)
(* What one step of an event loop can dispatch.  Loop::step hands one      *)
(* ready socket to the connection, which calls the callback of the frame   *)
(* that came in, or reports that the connection failed.                    *)
(***************************************************************************)
\* the published descriptors that name queue q as their reply address and
\* that the cluster has not answered yet
Unanswered(q) ==
    {i \in 1 .. Len(published) : published[i].routingkey = <<q>> /\ i \notin answered}

\* TempQueue::onDeclared
onDeclared ==
    /\ tempqueue.phase = "declaring"
    /\ tempqueue' = [tempqueue EXCEPT !.name = nextq, !.phase = "consuming"]
    /\ nextq' = nextq + 1
    /\ active' = FALSE
    /\ UNCHANGED <<state, result, cleanup, rabbit, error, pubChannels, answered, descriptors>>

\* TempQueue::onReceived, which calls JobImpl::onReceived
onReceived ==
    /\ tempqueue.phase \in {"consuming", "cancelling"}
    /\ \E i \in Unanswered(tempqueue.name), res \in Results :
        /\ answered' = answered \cup {i}
        /\ result' = res
        /\ \E fin \in FinalizeOutcomes, rem \in RemoveOutcomes :
                cleanup' = Received(algorithm, res, fin, rem)
    /\ tempqueue' = [tempqueue EXCEPT !.phase = "cancelling"]
    /\ state' = "finished"
    /\ UNCHANGED <<active, rabbit, error, pubChannels, nextq, descriptors>>

\* TempQueue::onCancelled
onCancelled ==
    /\ tempqueue.phase = "cancelling"
    /\ tempqueue' = [tempqueue EXCEPT !.cancelled = TRUE, !.phase = "removing"]
    /\ UNCHANGED <<state, result, cleanup, active, rabbit, error, pubChannels, answered, nextq,
                   descriptors>>

\* TempQueue::onRemoved
onRemoved ==
    /\ tempqueue.phase = "removing"
    /\ tempqueue' = [tempqueue EXCEPT !.phase = "closing"]
    /\ UNCHANGED <<state, result, cleanup, active, rabbit, error, pubChannels, answered, nextq,
                   descriptors>>

\* TempQueue::onClosed
onClosed ==
    /\ tempqueue.phase = "closing"
    /\ tempqueue' = [tempqueue EXCEPT !.ready = TRUE, !.phase = "closed"]
    /\ active' = FALSE
    /\ UNCHANGED <<state, result, cleanup, rabbit, error, pubChannels, answered, nextq, descriptors>>

\* TempQueue::onError, which calls JobImpl::onError: the broker closed the
\* channel of the temporary queue
onError ==
    /\ tempqueue.phase \in OpenPhases
    /\ tempqueue' = [tempqueue EXCEPT !.ready = TRUE, !.phase = "failed"]
    /\ active' = FALSE
    /\ state' = "finished"
    /\ UNCHANGED <<result, cleanup, rabbit, error, pubChannels, answered, nextq, descriptors>>

\* the broker confirms that a channel of Rabbit::publish is closed
onPublishClosed ==
    /\ pubChannels > 0
    /\ pubChannels' = pubChannels - 1
    /\ UNCHANGED <<tempqueue, state, result, cleanup, active, rabbit, error, answered, nextq,
                   descriptors>>

\* Rabbit::onError after the connection reported the error to its channels
\* (TempQueue::onError): the broker closed the connection
onConnectionError ==
    /\ rabbit
    /\ IF tempqueue.phase \in OpenPhases
       THEN /\ tempqueue' = [tempqueue EXCEPT !.ready = TRUE, !.phase = "failed"]
            /\ active' = FALSE
            /\ state' = "finished"
       ELSE UNCHANGED <<tempqueue, active, state>>
    /\ pubChannels' = 0
    /\ error' = TRUE
    /\ rabbit' = FALSE
    /\ descriptors' = DescriptorsAdd(descriptors, ConnectionFd, {})
    /\ UNCHANGED <<result, cleanup, answered, nextq>>

\* Rabbit::onError alone: the socket failed and the channels are not told
onConnectionLost ==
    /\ rabbit
    /\ tempqueue' = IF tempqueue.phase \in OpenPhases
                    THEN [tempqueue EXCEPT !.phase = "lost"] ELSE tempqueue
    /\ pubChannels' = 0
    /\ error' = TRUE
    /\ rabbit' = FALSE
    /\ descriptors' = DescriptorsAdd(descriptors, ConnectionFd, {})
    /\ UNCHANGED <<state, result, cleanup, active, answered, nextq>>

\* AMQP::TcpConnection::process as called by Loop::step
Process ==
    \/ onDeclared
    \/ onReceived
    \/ onCancelled
    \/ onRemoved
    \/ onClosed
    \/ onError
    \/ onPublishClosed
    \/ onConnectionError
    \/ onConnectionLost

(***************************************************************************)
(* The pool (pool.h) and the serialization round trip: constants           *)
(***************************************************************************)
\* the pool is given at most MaxJobs different jobs
MaxJobs == 3

\* the Job objects, named by their addresses: the order of std::map<Job*,_>
Jobs == 1 .. MaxJobs

\* a job adds at most MaxInputs inputs to its descriptor
MaxInputs == 2

\* *_jobs.begin(): the smallest key
Smallest(S) == CHOOSE x \in S : \A y \in S : x <= y

\* the place of x in the sequence seq
Pos(seq, x) == CHOOSE i \in 1 .. Len(seq) : seq[i] = x

\* the members of a sequence
Range(seq) == {seq[i] : i \in 1 .. Len(seq)}

\* no JobImpl
NoImpl ==
    [algorithm |-> "none", state |-> "none", mounted |-> FALSE, creatable |-> FALSE,
     directory |-> "",
     json |-> [mapper |-> FALSE, reducer |-> FALSE, tuned |-> {},
               input |-> [type |-> "absent", path |-> "", items |-> <<>>]],
     input |-> <<>>,
     datafile |-> [kind |-> "none", records |-> <<>>],
     disk |-> <<>>,
     emitted |-> 0,
     last |-> [op |-> "none", ret |-> FALSE]]

\* the variables of the pool where no pool is looked at
NoPool ==
    /\ poolJobs = {}
    /\ poolHandlers = {}
    /\ jobState = [j \in Jobs |-> "initialize"]
    /\ arrived = <<>>
    /\ handed = <<>>
    /\ poolpc = "idle"
    /\ poolcall = [op |-> "none", ret |-> {}, before |-> 0, after |-> 0, ready |-> {}]

\* Connection(): no connection object is looked at
NoConnectionObject ==
    [stage |-> "none", json |-> <<>>, rabbit |-> <<>>, cache |-> <<>>, text |-> <<>>,
     revived |-> [json |-> <<>>, rabbit |-> <<>>, cache |-> <<>>], text2 |-> <<>>]

\* no worker process is looked at
NoWorker ==
    [mode |-> "none", pc |-> "none", includes |-> 0, data |-> FALSE, directory |-> FALSE,
     stray |-> {}, reported |-> {}, null |-> FALSE, status |-> "none"]

\* no descriptor is looked at
NoData ==
    [algorithm |-> "none", state |-> "none",
     json |-> [processes |-> <<>>, modulo |-> <<>>, mapper |-> <<>>, reducer |-> <<>>,
               finalizer |-> <<>>],
     last |-> [op |-> "none", value |-> 0, ret |-> FALSE]]

\* Loop::run was not called and no step was taken
NoLooping ==
    [pc |-> "idle", ready |-> [read |-> {}, write |-> {}], dispatched |-> <<>>,
     ret |-> FALSE, stopped |-> FALSE]

\* the jobs that share one broker connection
MaxShared == 2

Pair == 1 .. MaxShared

\* a job on the shared connection: JobImpl::_state and _result, the queue
\* the result was consumed from (0: none), and its TempQueue: how far the
\* consumer is, _ready, and _loop's _active
NoSharedJob ==
    [state |-> "initialize", result |-> NoResult, from |-> 0, phase |-> "none",
     ready |-> FALSE, active |-> FALSE]

\* no job shares a connection: nobody waits and no wait has returned
NoShared ==
    [job |-> [j \in Pair |-> NoSharedJob], up |-> FALSE, waiting |-> 0,
     last |-> [job |-> 0, ret |-> FALSE, blocked |-> FALSE]]

\* the variables of the other objects where none of them is looked at
NoOthers ==
    /\ connection = NoConnectionObject
    /\ worker = NoWorker
    /\ data = NoData
    /\ looping = NoLooping
    /\ shared = NoShared

\* the variables of the round trip where no job is serialized
NoRoundTrip ==
    /\ original = NoImpl
    /\ text = <<>>
    /\ copy = NoImpl
    /\ text2 = <<>>
    /\ stage = "none"

\* the variables of the job and its connection where no job is looked at
NoJob ==
    /\ state = "initialize"
    /\ hasRabbit = TRUE
    /\ algorithm = "mapreduce"
    /\ json = [tuned |-> {}, routingkey |-> <<>>]
    /\ tempqueue = NoTempQueue
    /\ active = FALSE
    /\ result = NoResult
    /\ cleanup = NoCleanup
    /\ rabbit = FALSE
    /\ error = FALSE
    /\ pubChannels = 0
    /\ published = <<>>
    /\ answered = {}
    /\ nextq = 1
    /\ pc = "idle"
    /\ caller = "none"
    /\ entry = [state |-> "initialize", published |-> 0, tempqueue |-> NoTempQueue,
                json |-> json, result |-> NoResult, observed |-> "none"]
    /\ call = [op |-> "none", ret |-> FALSE, observed |-> "none"]
    /\ crashed = FALSE

(***************************************************************************)
(* The public calls on one job and on its connection                       *)
(***************************************************************************)
\* Rabbit::Rabbit returned: connected, no error, the socket is monitored
InitRabbit ==
    /\ rabbit = TRUE
    /\ error = FALSE
    /\ pubChannels = 0
    /\ published = <<>>
    /\ answered = {}
    /\ nextq = 1
    /\ descriptors = DescriptorsAdd(EmptyDescriptors, ConnectionFd, {"readable"})
    /\ loop = EmptyDescriptors

\* JobImpl::JobImpl(rabbit, cache, algo) or JobImpl::JobImpl(data), which
\* leaves _rabbit null
InitJob ==
    /\ InitRabbit
    /\ algorithm \in Algorithms
    /\ \/ state = "initialize" /\ hasRabbit = TRUE
       \/ state = "frozen" /\ hasRabbit = FALSE
    /\ json = [tuned |-> {}, routingkey |-> <<>>]
    /\ tempqueue = NoTempQueue
    /\ active = FALSE
    /\ result = NoResult
    /\ cleanup = NoCleanup
    /\ pc = "idle"
    /\ caller = "none"
    /\ entry = [state |-> state, published |-> 0, tempqueue |-> NoTempQueue, json |-> json,
                result |-> NoResult, observed |-> "none"]
    /\ call = [op |-> "none", ret |-> FALSE, observed |-> "none"]
    /\ crashed = FALSE
    /\ NoPool
    /\ NoRoundTrip
    /\ NoOthers

\* a setter of the descriptor: it refuses or it sets the knob in the json
Knob(k, allowed) ==
    /\ pc = "idle" /\ ~crashed
    /\ UNCHANGED <<poolVars, serVars, otherVars>>
    /\ allowed => (k \in json.tuned \/ Cardinality(json.tuned) < MaxTuned)
    /\ entry' = Snapshot
    /\ IF allowed
       THEN json' = [json EXCEPT !.tuned = @ \cup {k}] /\ Return(k, TRUE)
       ELSE json' = json /\ Return(k, FALSE)
    /\ UNCHANGED <<descriptors, loop, state, hasRabbit, algorithm, tempqueue, active,
                   result, cleanup, rabbit, error, pubChannels, published, answered, nextq>>

\* JobImpl::maxprocesses
maxprocesses == Knob("maxprocesses", state = "initialize")

\* JobImpl::maxmappers
maxmappers == Knob("maxmappers", state = "initialize")

\* JobImpl::maxreducers
maxreducers == Knob("maxreducers", state = "initialize")

\* JobImpl::maxfinalizers
maxfinalizers == Knob("maxfinalizers", state = "initialize")

\* JobImpl::modulo
modulo == Knob("modulo", state = "initialize")

\* JobImpl::maxfiles
maxfiles == Knob("maxfiles", isTunable(state))

\* JobImpl::maxbytes
maxbytes == Knob("maxbytes", isTunable(state))

\* JobImpl::maxrecords
maxrecords == Knob("maxrecords", isTunable(state))

\* JobImpl::local
local == Knob("local", isTunable(state))

\* TempQueue::~TempQueue before its event loop: the consumer is cancelled
\* unless that was done
Cancel(tq) ==
    IF ~tq.cancelled /\ tq.phase = "consuming" THEN [tq EXCEPT !.phase = "cancelling"] ELSE tq

\* JobImpl::start from initialize or frozen, up to the event loop of the
\* TempQueue constructor; c is the public call that runs it
BeginStart(c) ==
    IF ~hasRabbit
    THEN \* core->descriptors() on a null pointer
         /\ Crash(c)
         /\ UNCHANGED <<tempqueue, active>>
    ELSE IF ~connect
    THEN \* a channel on a null connection: an exception, which start()
         \* catches, or a null dereference
         /\ Return(c, FALSE) \/ Crash(c)
         /\ UNCHANGED <<tempqueue, active>>
    ELSE /\ tempqueue' = NewTempQueue
         /\ active' = TRUE
         /\ pc' = "ctor"
         /\ caller' = c
         /\ UNCHANGED <<call, crashed>>

\* JobImpl::wait after start() returned true, for the temporary queue tq
\* and the state st: TempQueue::wait up to its event loop
WaitOn(tq, st) ==
    IF ~tq.held THEN ReturnIn("wait", FALSE, st) /\ active' = FALSE
    ELSE IF tq.ready THEN ReturnIn("wait", ~isError(st, algorithm, result), st) /\ active' = FALSE
    ELSE /\ pc' = "wait"
         /\ caller' = "wait"
         /\ active' = TRUE
         /\ UNCHANGED <<call, crashed>>

\* JobImpl::start
start ==
    /\ pc = "idle" /\ ~crashed
    /\ UNCHANGED <<poolVars, serVars, otherVars>>
    /\ ~Started(state) => (Len(published) < MaxPublish /\ nextq <= MaxQueues)
    /\ entry' = Snapshot
    /\ IF Started(state)
       THEN Return("start", TRUE) /\ UNCHANGED <<tempqueue, active>>
       ELSE BeginStart("start")
    /\ UNCHANGED <<descriptors, loop, state, hasRabbit, algorithm, json, result, cleanup,
                   rabbit, error, pubChannels, published, answered, nextq>>

\* mutant of wait: a finished job is reported as a success
waitHopeful ==
    /\ pc = "idle" /\ ~crashed
    /\ UNCHANGED <<poolVars, serVars, otherVars>>
    /\ ~Started(state) => (Len(published) < MaxPublish /\ nextq <= MaxQueues)
    /\ entry' = Snapshot
    /\ IF state = "finished"
       THEN Return("wait", TRUE) /\ UNCHANGED <<tempqueue, active>>
       ELSE IF Started(state)
       THEN WaitOn(tempqueue, state) /\ UNCHANGED tempqueue
       ELSE BeginStart("wait")
    /\ UNCHANGED <<descriptors, loop, state, hasRabbit, algorithm, json, result, cleanup,
                   rabbit, error, pubChannels, published, answered, nextq>>

\* JobImpl::wait
wait ==
    /\ pc = "idle" /\ ~crashed
    /\ UNCHANGED <<poolVars, serVars, otherVars>>
    /\ ~Started(state) => (Len(published) < MaxPublish /\ nextq <= MaxQueues)
    /\ entry' = Snapshot
    /\ IF state = "finished"
       THEN Return("wait", ~isError(state, algorithm, result)) /\ UNCHANGED <<tempqueue, active>>
       ELSE IF Started(state)
       THEN WaitOn(tempqueue, state) /\ UNCHANGED tempqueue
       ELSE BeginStart("wait")
    /\ UNCHANGED <<descriptors, loop, state, hasRabbit, algorithm, json, result, cleanup,
                   rabbit, error, pubChannels, published, answered, nextq>>

\* the event loop of the TempQueue constructor returned: the rest of
\* JobImpl::start, and of JobImpl::wait when that called start
CtorReturns ==
    /\ pc = "ctor" /\ ~crashed
    /\ UNCHANGED <<poolVars, serVars, otherVars>>
    /\ ~active \/ NothingToMonitor
    /\ LET tq == [tempqueue EXCEPT !.held = TRUE]
           js == [json EXCEPT !.routingkey = <<tempqueue.name>>]
       IN  /\ json' = js
           /\ IF connect
              THEN /\ Publish(js)
                   /\ state' = "running"
                   /\ tempqueue' = tq
                   /\ IF caller = "start"
                      THEN Return("start", TRUE) /\ active' = FALSE
                      ELSE WaitOn(tq, "running")
              ELSE /\ UNCHANGED <<published, pubChannels, state>>
                   /\ IF tq.ready
                      THEN /\ tempqueue' = NoTempQueue
                           /\ active' = FALSE
                           /\ Return(caller, FALSE)
                      ELSE /\ tempqueue' = Cancel(tq)
                           /\ active' = TRUE
                           /\ pc' = "dtor"
                           /\ UNCHANGED <<caller, call, crashed>>
    /\ UNCHANGED <<descriptors, loop, hasRabbit, algorithm, result, cleanup, rabbit, error,
                   answered, nextq, entry>>

\* JobImpl::detach after the temporary queue is gone
DetachRest ==
    IF state = "running"
    THEN Return("detach", TRUE) /\ UNCHANGED <<state, published, pubChannels>>
    ELSE IF ~hasRabbit
    THEN \* Data::publish calls a method of a null Rabbit
         Crash("detach") /\ UNCHANGED <<state, published, pubChannels>>
    ELSE IF connect
    THEN Publish(json) /\ state' = "running" /\ Return("detach", TRUE)
    ELSE Return("detach", FALSE) /\ UNCHANGED <<state, published, pubChannels>>

\* JobImpl::detach
detach ==
    /\ pc = "idle" /\ ~crashed
    /\ UNCHANGED <<poolVars, serVars, otherVars>>
    /\ state = "finished" \/ Len(published) < MaxPublish
    /\ entry' = Snapshot
    /\ IF state = "finished"
       THEN /\ Return("detach", FALSE)
            /\ UNCHANGED <<tempqueue, active, state, published, pubChannels>>
       ELSE IF tempqueue.held /\ ~tempqueue.ready
       THEN /\ tempqueue' = Cancel(tempqueue)
            /\ active' = TRUE
            /\ pc' = "dtor"
            /\ caller' = "detach"
            /\ UNCHANGED <<call, crashed, state, published, pubChannels>>
       ELSE /\ tempqueue' = NoTempQueue
            /\ active' = active
            /\ DetachRest
    /\ UNCHANGED <<descriptors, loop, hasRabbit, algorithm, json, result, cleanup, rabbit, error,
                   answered, nextq>>

\* the event loop of the TempQueue destructor returned: the queue is gone
\* and the call that destroyed it goes on
DtorReturns ==
    /\ pc = "dtor" /\ ~crashed
    /\ UNCHANGED <<poolVars, serVars, otherVars>>
    /\ ~active \/ NothingToMonitor
    /\ tempqueue' = NoTempQueue
    /\ active' = FALSE
    /\ IF caller = "detach"
       THEN DetachRest
       ELSE IF caller = "destruct"
       THEN pc' = "gone" /\ UNCHANGED <<caller, call, crashed, state, published, pubChannels>>
       ELSE Return(caller, FALSE) /\ UNCHANGED <<state, published, pubChannels>>
    /\ UNCHANGED <<descriptors, loop, hasRabbit, algorithm, json, result, cleanup, rabbit, error,
                   answered, nextq, entry>>

\* JobImpl::~JobImpl: the members are destroyed in reverse order, so that
\* _result, _datafile, _target and _directory are gone when the destructor
\* of the temporary queue runs its event loop
destruct ==
    /\ pc = "idle" /\ ~crashed
    /\ UNCHANGED <<poolVars, serVars, otherVars>>
    /\ entry' = Snapshot
    /\ caller' = "destruct"
    /\ IF tempqueue.held /\ ~tempqueue.ready
       THEN /\ tempqueue' = Cancel(tempqueue)
            /\ active' = TRUE
            /\ pc' = "dtor"
       ELSE /\ tempqueue' = NoTempQueue
            /\ active' = active
            /\ pc' = "gone"
    /\ UNCHANGED <<call, crashed>>
    /\ UNCHANGED <<descriptors, loop, state, hasRabbit, algorithm, json, result, cleanup,
                   rabbit, error, pubChannels, published, answered, nextq>>

\* the result arrives while the destructor of the job runs the event loop:
\* JobImpl::onReceived assigns to members that are destroyed, which ends
\* the process (RunStep has the outcome in which it goes well)
DestructReceives ==
    /\ pc = "dtor" /\ caller = "destruct" /\ ~crashed
    /\ active /\ ~NothingToMonitor
    /\ tempqueue.phase \in {"consuming", "cancelling"}
    /\ Unanswered(tempqueue.name) # {}
    /\ crashed' = TRUE
    /\ UNCHANGED <<descVars, jobVars, rabbitVars, pc, caller, entry, call, poolVars, serVars,
                   otherVars>>

\* the event loop of TempQueue::wait returned: the rest of JobImpl::wait
WaitReturns ==
    /\ pc = "wait" /\ ~crashed
    /\ UNCHANGED <<poolVars, serVars, otherVars>>
    /\ ~active \/ NothingToMonitor
    /\ active' = FALSE
    /\ Return("wait", ~isError(state, algorithm, result))
    /\ UNCHANGED <<descriptors, loop, state, hasRabbit, algorithm, json, tempqueue,
                   result, cleanup, rabbit, error, pubChannels, published, answered, nextq, entry>>

\* Loop::run of a temporary queue takes one step
RunStep ==
    /\ pc \in {"ctor", "wait", "dtor"} /\ ~crashed
    /\ UNCHANGED <<poolVars, serVars, otherVars>>
    /\ active /\ ~NothingToMonitor
    /\ Process
    /\ UNCHANGED <<loop, hasRabbit, algorithm, json, published, pc, caller, entry, call,
                   crashed>>

\* Rabbit::flush up to its loop
flush ==
    /\ pc = "idle" /\ ~crashed
    /\ UNCHANGED <<poolVars, serVars, otherVars>>
    /\ entry' = Snapshot
    /\ IF ~rabbit
       THEN Return("flush", TRUE)
       ELSE pc' = "flush" /\ caller' = "flush" /\ UNCHANGED <<call, crashed>>
    /\ UNCHANGED <<descriptors, loop, state, hasRabbit, algorithm, json, tempqueue, active,
                   result, cleanup, rabbit, error, pubChannels, published, answered, nextq>>

\* Rabbit::flush takes one step of its loop
FlushStep ==
    /\ pc = "flush" /\ ~crashed
    /\ UNCHANGED <<poolVars, serVars, otherVars>>
    /\ rabbit /\ FlushContinue
    /\ Process
    /\ UNCHANGED <<loop, hasRabbit, algorithm, json, published, pc, caller, entry, call,
                   crashed>>

\* Rabbit::flush finds no channel on the connection and returns
FlushReturns ==
    /\ pc = "flush" /\ ~crashed
    /\ UNCHANGED <<poolVars, serVars, otherVars>>
    /\ rabbit /\ ~FlushContinue
    /\ Return("flush", TRUE)
    /\ UNCHANGED <<descriptors, loop, state, hasRabbit, algorithm, json, tempqueue, active,
                   result, cleanup, rabbit, error, pubChannels, published, answered, nextq, entry>>

\* Rabbit::flush evaluates _rabbit->channels() after a step reset _rabbit:
\* the process ends, or the read yields no channel and flush returns
FlushDropped ==
    /\ pc = "flush" /\ ~crashed
    /\ UNCHANGED <<poolVars, serVars, otherVars>>
    /\ ~rabbit
    /\ Crash("flush") \/ Return("flush", TRUE)
    /\ UNCHANGED <<descriptors, loop, state, hasRabbit, algorithm, json, tempqueue, active,
                   result, cleanup, rabbit, error, pubChannels, published, answered, nextq, entry>>

NextJob ==
    \/ maxprocesses \/ maxmappers \/ maxreducers \/ maxfinalizers \/ modulo
    \/ maxfiles \/ maxbytes \/ maxrecords \/ local
    \/ start \/ wait \/ detach \/ flush \/ destruct
    \/ RunStep \/ CtorReturns \/ WaitReturns \/ DtorReturns \/ DestructReceives
    \/ FlushStep \/ FlushReturns \/ FlushDropped

SpecJob == InitJob /\ [][NextJob]_vars

\* the public call op was the last call and it returned
Returned(op) == pc = "idle" /\ ~crashed /\ call.op = op

(***************************************************************************)
(* C1: every knob mutator (maxprocesses, maxmappers, maxreducers,          *)
(* maxfinalizers, modulo, maxfiles, maxbytes, maxrecords, local) succeeds  *)
(* only in the initialize state: called on a job that is frozen, running   *)
(* or finished it returns failure.                                         *)
(***************************************************************************)
C1_KnobsOnlyInInitialize ==
    \A k \in Knobs :
        (Returned(k) /\ entry.state # "initialize") =>
            (call.ret = FALSE /\ json = entry.json)

(***************************************************************************)
(* C4, as claimed: Rabbit::flush returns if and only if no channel opened  *)
(* by publish is alive; with no such channel it returns whatever other     *)
(* channels are open.  A step of flush taken with no publish channel alive *)
(* must therefore be its return.                                           *)
(***************************************************************************)
C4_FlushWaitsForPublishOnly ==
    [][/\ (pc = "flush" /\ pc' = "idle") => pubChannels = 0
       /\ (pc = "flush" /\ rabbit /\ pubChannels = 0) => pc' = "idle"]_vars

(***************************************************************************)
(* C4, amended: Rabbit::flush returns only when no channel at all is open  *)
(* on the connection; while the connection is up it keeps stepping the     *)
(* event loop as long as any channel is open, be it a channel of publish   *)
(* or the consumer channel of a temporary queue, and it returns as soon as *)
(* none is.                                                                *)
(***************************************************************************)
C4_FlushWaitsForAllChannels ==
    [][/\ (pc = "flush" /\ pc' = "idle") => Channels = 0
       /\ (pc = "flush" /\ rabbit) => (pc' = "idle" <=> Channels = 0)]_vars

\* flush is stepping the loop while the only open channel is the consumer
\* channel of the job's temporary queue
C4_Witness ==
    /\ pc = "flush"
    /\ rabbit
    /\ pubChannels = 0
    /\ tempqueue.held
    /\ tempqueue.phase = "consuming"

(***************************************************************************)
(* C7: start() on a job that is running or finished returns success,       *)
(* publishes nothing, allocates no feedback channel and leaves the state   *)
(* and the descriptor as they were.                                        *)
(***************************************************************************)
C7_StartIsIdempotent ==
    (Returned("start") /\ entry.state \in {"running", "finished"}) =>
        /\ call.ret = TRUE
        /\ state = entry.state
        /\ Len(published) = entry.published
        /\ tempqueue = entry.tempqueue
        /\ json = entry.json

\* start() returned on a finished job that holds its feedback channel
C7_Witness ==
    /\ Returned("start")
    /\ entry.state = "finished"
    /\ entry.tempqueue.held
    /\ call.ret = TRUE
    /\ Len(published) > 0

(***************************************************************************)
(* C8: when publishing fails during start(), start() returns failure, the  *)
(* feedback channel it allocated is discarded and the job stays in the     *)
(* state it had before the call (initialize or frozen): it is not running. *)
(***************************************************************************)
C8_FailedStartKeepsState ==
    (Returned("start") /\ call.ret = FALSE) =>
        /\ state = entry.state
        /\ state \in {"initialize", "frozen"}
        /\ tempqueue = NoTempQueue
        /\ Len(published) = entry.published

(***************************************************************************)
(* C9: detach() on a running job releases the feedback channel, publishes  *)
(* nothing, returns success and leaves the job running.                    *)
(***************************************************************************)
C9_DetachRunning ==
    (Returned("detach") /\ entry.state = "running") =>
        /\ call.ret = TRUE
        /\ state = "running"
        /\ tempqueue = NoTempQueue
        /\ Len(published) = entry.published

(***************************************************************************)
(* C10: detach() on a job that was never started publishes the descriptor  *)
(* exactly once, creates no feedback channel and moves the job to running; *)
(* every later wait() returns failure without blocking and without         *)
(* publishing.                                                             *)
(***************************************************************************)
C10_DetachNeverStarted ==
    /\ (crashed /\ caller = "detach") => ~isTunable(entry.state)
    /\ (Returned("detach") /\ isTunable(entry.state)) =>
            /\ call.ret = TRUE
            /\ state = "running"
            /\ tempqueue = NoTempQueue
            /\ Len(published) = entry.published + 1
    /\ (state = "running" /\ ~tempqueue.held) => pc # "wait"
    /\ (Returned("wait") /\ entry.state = "running" /\ ~entry.tempqueue.held) =>
            /\ call.ret = FALSE
            /\ state = "running"
            /\ Len(published) = entry.published

(***************************************************************************)
(* C11: whenever wait() returns on a job that was not detached and whose   *)
(* start succeeded, the job is finished: wait() does not return, and does  *)
(* not report success, while the job is still running.                     *)
(***************************************************************************)
C11_WaitReturnsFinished ==
    (Returned("wait") /\ tempqueue.held) => state = "finished"

(***************************************************************************)
(* C12: wait() on a job that is already finished returns the same status   *)
(* as the wait() that observed its completion; it does not drive the event *)
(* loop, it publishes nothing and it leaves the cached result, the state   *)
(* and the temporary queue as they were.                                   *)
(***************************************************************************)
C12_WaitOnFinished ==
    /\ (caller = "wait" /\ pc # "idle") => entry.state # "finished"
    /\ (Returned("wait") /\ entry.state = "finished") =>
            /\ entry.observed # "none" => call.ret = (entry.observed = "ok")
            /\ result = entry.result
            /\ state = "finished"
            /\ tempqueue = entry.tempqueue
            /\ Len(published) = entry.published

\* wait() returned failure on a finished job of which an earlier wait()
\* observed the failure
C12_Witness ==
    /\ Returned("wait")
    /\ entry.state = "finished"
    /\ entry.observed = "failed"
    /\ entry.tempqueue.held
    /\ call.ret = FALSE

(***************************************************************************)
(* C21: a job that was unserialized holds no broker connection, and        *)
(* start() on it works as it does from initialize: the process goes on,    *)
(* and when start() returns success the descriptor is published and the    *)
(* job is running (or already finished).                                   *)
(***************************************************************************)
C21_StartFromFrozen ==
    /\ (crashed /\ caller = "start") => entry.state # "frozen"
    /\ (Returned("start") /\ entry.state = "frozen" /\ call.ret) =>
            /\ state \in {"running", "finished"}
            /\ Len(published) = entry.published + 1

\* the private loops of the temporary queue and the loop of Rabbit::flush:
\* the program is inside Loop::run or Loop::step
LoopPhases == {"ctor", "wait", "dtor", "flush"}

C24_ChannelErrorFinishes ==
    [][/\ (state = "running" /\ tempqueue.phase \in OpenPhases
             /\ tempqueue'.phase = "failed")
          => (/\ state' = "finished"
              /\ tempqueue'.ready
              /\ isError(state', algorithm, result'))
       /\ (tempqueue.phase = "failed" /\ state = "finished" /\ size(result) = 0
             /\ pc # "ctor")
          => (/\ state' = "finished"
              /\ result' = result
              /\ (call' # call /\ call'.op = "wait") => ~call'.ret)]_vars

(***************************************************************************)
(* Result handling: a running job of any algorithm receives any result,    *)
(* and wait() is called on the finished job.                               *)
(***************************************************************************)
InitResult ==
    /\ InitRabbit
    /\ algorithm \in Algorithms
    /\ state = "running"
    /\ hasRabbit = TRUE
    /\ json = [tuned |-> {}, routingkey |-> <<>>]
    /\ tempqueue = NoTempQueue
    /\ active = FALSE
    /\ result = NoResult
    /\ cleanup = NoCleanup
    /\ pc = "idle"
    /\ caller = "none"
    /\ entry = [state |-> state, published |-> 0, tempqueue |-> NoTempQueue, json |-> json,
                result |-> NoResult, observed |-> "none"]
    /\ call = [op |-> "none", ret |-> FALSE, observed |-> "none"]
    /\ crashed = FALSE
    /\ NoPool
    /\ NoRoundTrip
    /\ NoOthers

\* JobImpl::onReceived
received ==
    /\ state = "running" /\ ~crashed
    /\ \E res \in AllResults, fin \in FinalizeOutcomes, rem \in RemoveOutcomes :
        /\ result' = res
        /\ cleanup' = Received(algorithm, res, fin, rem)
    /\ state' = "finished"
    /\ crashed' = (cleanup'.removal = "crashed")
    /\ UNCHANGED <<hasRabbit, algorithm, json, tempqueue, active, pc, caller, entry, call>>
    /\ UNCHANGED <<descVars, rabbitVars, poolVars, serVars, otherVars>>

\* JobImpl::wait on the job that received its result
waitResult == state = "finished" /\ wait

NextResult == received \/ waitResult

SpecResult == InitResult /\ [][NextResult]_vars

(***************************************************************************)
(* C13: a finished job counts as failed exactly when its result is an      *)
(* empty JSON object, or has a top-level member "error", or the job is a   *)
(* task and the result has a top-level member "stderr"; for every other    *)
(* result of a finished job wait() reports success, and a job that is not  *)
(* finished does not count as an error.                                    *)
(***************************************************************************)
C13_ErrorPredicate ==
    LET failed == \/ size(result) = 0
                  \/ "error" \in result.members
                  \/ algorithm = "job" /\ "stderr" \in result.members
    IN  /\ state = "finished" => (isError(state, algorithm, result) <=> failed)
        /\ (Returned("wait") /\ state = "finished") => (call.ret <=> ~failed)
        /\ state # "finished" => ~isError(state, algorithm, result)

\* wait() reported success on a finished job that is no task and whose
\* result has a member "stderr" and a member "finalizers" and no "error"
C13_Witness ==
    /\ Returned("wait")
    /\ state = "finished"
    /\ algorithm = "race"
    /\ result.members = {"stderr"}
    /\ result.finalizers = 0
    /\ call.ret = TRUE

\* the result is no error, the job is a mapreduce job, finalizers.processes
\* is zero and the result names a directory
LeftToClient ==
    /\ ~isError("finished", algorithm, result)
    /\ algorithm = "mapreduce"
    /\ processes(result) = 0
    /\ result.directory = "named"

(***************************************************************************)
(* C14, as claimed: the local finalize pass and the removal of the result  *)
(* directory happen only if the result is no error, the job is a mapreduce *)
(* job, finalizers.processes is zero and the result names a directory      *)
(* together with a non-empty finalize array; a result with                 *)
(* finalizers.processes > 0 never triggers a finalize or a removal.        *)
(***************************************************************************)
C14_FinalizeAndRemoveNeedFiles ==
    /\ (cleanup.finalize # "none" \/ cleanup.removal # "none") =>
            (LeftToClient /\ result.finalize = "filled")
    /\ processes(result) > 0 => cleanup = NoCleanup

(***************************************************************************)
(* C14, amended: the local finalize pass runs exactly when the result is   *)
(* no error, the job is a mapreduce job, finalizers.processes is zero, the *)
(* result names a directory and its member "finalize" is an array, empty   *)
(* or not; the directory is removed (Directory::remove is called) exactly  *)
(* when the first four hold and no exception left the finalize pass, with  *)
(* or without a finalize array; a result with finalizers.processes > 0     *)
(* triggers neither.                                                       *)
(***************************************************************************)
C14_RemoveNeedsNoFiles ==
    /\ state = "finished" =>
        /\ cleanup.finalize # "none" <=>
                (LeftToClient /\ result.finalize \in {"empty", "filled"})
        /\ cleanup.removal # "none" <=> (LeftToClient /\ cleanup.finalize # "thrown")
    /\ state # "finished" => cleanup = NoCleanup
    /\ processes(result) > 0 => cleanup = NoCleanup

\* the directory of a result without a finalize array was removed, and no
\* finalize pass ran
C14_Witness ==
    /\ state = "finished"
    /\ result.directory = "named"
    /\ result.finalize = "absent"
    /\ result.finalizers = 0
    /\ cleanup = [finalize |-> "none", removal |-> "removed"]

(***************************************************************************)
(* C15: if the local finalize pass fails (an exception while the working   *)
(* directory is changed, the write task is built or the user's algorithm   *)
(* runs), the job still ends in the finished state and the result          *)
(* directory is left on disk: it is not removed.                           *)
(***************************************************************************)
C15_FailedFinalizeKeepsDirectory ==
    cleanup.finalize \in {"failed", "thrown"} =>
        /\ state = "finished"
        /\ cleanup.removal # "removed"

(***************************************************************************)
(* C28: the owner of a temporary queue is told of the message (a step that *)
(* answers a published descriptor and finishes the job) only when the      *)
(* message was acked, the consumer cancelled, the queue removed and the    *)
(* channel closed: after the step the channel of the queue is not open.    *)
(***************************************************************************)
C28_NotifiedAfterClose ==
    [][(answered' # answered /\ state' = "finished" /\ ~crashed')
       => (tempqueue'.cancelled /\ tempqueue'.phase \notin OpenPhases)]_vars

(***************************************************************************)
(* Deliveries on the temporary queue of a running job.  The consumer takes *)
(* what the broker delivers until the broker has cancelled it; the broker  *)
(* delivers every message that is in the queue.                            *)
(***************************************************************************)
\* the largest number of messages that reach the temporary queue
MaxDeliveries == 2

InitDelivery ==
    /\ InitRabbit
    /\ algorithm \in Algorithms
    /\ state = "running"
    /\ hasRabbit = TRUE
    /\ json = [tuned |-> {}, routingkey |-> <<1>>]
    /\ tempqueue = [NewTempQueue EXCEPT !.held = TRUE, !.name = 1, !.phase = "consuming"]
    /\ active = FALSE
    /\ result = NoResult
    /\ cleanup = NoCleanup
    /\ pc = "idle"
    /\ caller = "none"
    /\ entry = [state |-> state, published |-> 0, tempqueue |-> NoTempQueue, json |-> json,
                result |-> NoResult, observed |-> "none"]
    /\ call = [op |-> "none", ret |-> FALSE, observed |-> "none"]
    /\ crashed = FALSE
    /\ NoPool
    /\ NoRoundTrip
    /\ NoOthers

\* what a delivery and the answers of the broker leave alone
NoCall ==
    UNCHANGED <<loop, hasRabbit, algorithm, json, published, pc, caller, entry, call,
                poolVars, serVars, otherVars>>

\* TempQueue::onReceived for a message of the queue, which acks, asks for
\* the cancel and calls JobImpl::onReceived, whatever the state of the job
deliver ==
    /\ ~crashed
    /\ tempqueue.phase \in {"consuming", "cancelling"}
    /\ Cardinality(answered) < MaxDeliveries
    /\ answered' = answered \cup {Cardinality(answered) + 1}
    /\ \E res \in AllResults, fin \in FinalizeOutcomes, rem \in RemoveOutcomes :
        /\ result' = res
        /\ cleanup' = Received(algorithm, res, fin, rem)
    /\ tempqueue' = [tempqueue EXCEPT !.phase = "cancelling"]
    /\ state' = "finished"
    /\ crashed' = (cleanup'.removal = "crashed")
    /\ UNCHANGED <<active, rabbit, error, pubChannels, nextq, descriptors>>
    /\ NoCall

\* the broker answers the cancel, the removal of the queue and the close of
\* the channel
settle ==
    /\ ~crashed
    /\ onCancelled \/ onRemoved \/ onClosed
    /\ UNCHANGED crashed
    /\ NoCall

NextDelivery == deliver \/ settle

SpecDelivery == InitDelivery /\ [][NextDelivery]_vars

(***************************************************************************)
(* C33: the result of a job is set at most once: a delivery that reaches   *)
(* a job that is finished leaves the result as it is and does not run the  *)
(* local finalize pass or the removal of the directory again.              *)
(***************************************************************************)
C33_ResultSetOnce ==
    [][(state = "finished" /\ answered' # answered)
       => (result' = result /\ cleanup' = cleanup)]_vars

\* the place of a state in the order initialize, frozen, running, finished
Rank(st) ==
    CASE st = "initialize" -> 0
      [] st = "frozen"     -> 1
      [] st = "running"    -> 2
      [] OTHER             -> 3

(***************************************************************************)
(* C32: the state of a job only moves forward along initialize, frozen,    *)
(* running, finished: no step moves a running job back to frozen or        *)
(* initialize, and a finished job stays finished.                          *)
(***************************************************************************)
C32_StateMovesForward ==
    [][Rank(state') >= Rank(state)]_vars

(***************************************************************************)
(* C36: Rabbit::flush does not use a connection that was dropped: once a   *)
(* step of its loop has reset the connection pointer (the connection was   *)
(* closed or reported an error), flush returns, and the process does not   *)
(* end in the channel count of the dropped connection.                     *)
(***************************************************************************)
C36_FlushLeavesDropped ==
    [][(pc = "flush" /\ ~rabbit /\ ~crashed) => (pc' = "idle" /\ ~crashed')]_vars

\* Rabbit::connect in full, for a broker that accepts the new connection
\* or does not: what it returns, and whether its loop stepped the new
\* connection at all.  The loop is entered only with _error empty.
Connect(connected, err, reachable) ==
    IF connected THEN [ret |-> TRUE, stepped |-> FALSE]
    ELSE IF err THEN [ret |-> FALSE, stepped |-> FALSE]
    ELSE [ret |-> reachable, stepped |-> TRUE]

\* connect is Rabbit::connect where the broker accepts connections
ConnectAgrees == connect = Connect(rabbit, error, TRUE).ret

\* a step in which Rabbit::publish, called by detach(), returned false
PublishFailed ==
    /\ (detach /\ state # "finished") \/ (DtorReturns /\ caller = "detach")
    /\ pc' = "idle" /\ ~crashed'
    /\ ~call'.ret

\* the descriptor that a step published, if it published one
Sent == published'[Len(published')]

\* a published descriptor d names a queue to answer to: Data::tempqueue
\* stored the name that the broker gave to a temporary queue
HasReplyAddress(d) == d.routingkey # <<>> /\ d.routingkey[1] > 0

(***************************************************************************)
(* C37: a descriptor that is published with a reply address is published   *)
(* by a job that holds, at that moment, a temporary queue of exactly that  *)
(* name whose channel is open; a descriptor published by detach() carries  *)
(* no reply address, also after a start() that failed.                     *)
(***************************************************************************)
C37_ReplyAddressIsLive ==
    [][(Len(published') > Len(published)) =>
          /\ HasReplyAddress(Sent) =>
                /\ tempqueue'.held
                /\ tempqueue'.phase \in OpenPhases
                /\ tempqueue'.name = Sent.routingkey[1]
          /\ call'.op = "detach" /\ pc' = "idle" => ~HasReplyAddress(Sent)]_vars

(***************************************************************************)
(* C39: a publish() after the broker connection was lost connects again    *)
(* before it publishes, after a clean close and after a connection error:  *)
(* it returns failure only when the new connection attempt fails, so a     *)
(* publish that fails has stepped a new connection, which failed.          *)
(***************************************************************************)
C39_PublishReconnects ==
    [][PublishFailed =>
          \E reachable \in BOOLEAN :
              Connect(rabbit, error, reachable) = [ret |-> FALSE, stepped |-> TRUE]]_vars

(***************************************************************************)
(* The destruction of a temporary queue under a broker that answers: the   *)
(* calls that make and destroy the queue, and the event loops they run.    *)
(***************************************************************************)
\* the broker answers what the channel of the temporary queue waits for
\* while the destructor runs the event loop
DtorStep == pc = "dtor" /\ RunStep /\ tempqueue' # tempqueue

NextDestroy ==
    \/ start \/ wait \/ detach \/ destruct
    \/ RunStep \/ CtorReturns \/ WaitReturns \/ DtorReturns \/ DestructReceives

\* the broker is responsive, and a loop that was stopped returns
SpecDestroy ==
    /\ InitJob
    /\ [][NextDestroy]_vars
    /\ WF_vars(DtorStep)
    /\ WF_vars(DtorReturns)

(***************************************************************************)
(* C31: a destructor of a temporary queue that runs the event loop ends    *)
(* when the channel of the queue is closed or has reported an error, and   *)
(* under a responsive broker it does end: the call that destroyed the      *)
(* queue goes on, with no channel of the queue left open.                  *)
(***************************************************************************)
C31_DestructorReturns ==
    /\ (pc = "dtor") ~> (pc # "dtor")
    /\ [][(pc = "dtor" /\ pc' # "dtor") => tempqueue.phase \notin OpenPhases]_vars

(***************************************************************************)
(* The pool (pool.h).  A job of the pool finishes when a step of the       *)
(* pool's event loop hands its result to the job.                          *)
(***************************************************************************)
\* mutant of Erase: the job stays in the map
EraseNothing(js, j) == js

\* Pool::extract: _jobs.erase(job)
Erase(js, j) == js \ {j}

\* mutant of extract: the last ready job of the map
extractLast(js, st) ==
    LET rdy == {j \in js : st[j] = "finished"}
    IN  IF rdy = {} THEN {} ELSE {Largest(rdy)}

\* Pool::extract: the first job of the map, in the order of its keys, that
\* is ready; the empty set stands for the null it returns when none is
extract(js, st) ==
    LET rdy == {j \in js : st[j] = "finished"}
    IN  IF rdy = {} THEN {} ELSE {Smallest(rdy)}

\* the jobs whose result is at a socket of the pool and was not read yet
Unread == {j \in Range(arrived) : jobState[j] = "running" /\ j \in poolHandlers}

\* the handlers have read the results of the jobs in S
Finish(S) == [j \in Jobs |-> IF j \in S THEN "finished" ELSE jobState[j]]

\* the pool hands out what extract found: a job, or nothing
HandOut(op, found, before, rdy) ==
    /\ poolJobs' = IF found = {} THEN poolJobs ELSE Erase(poolJobs, Smallest(found))
    /\ handed' = IF found = {} THEN handed
                 ELSE Append(handed, [op |-> op, job |-> Smallest(found)])
    /\ poolcall' = [op |-> op, ret |-> found, before |-> before,
                    after |-> Cardinality(poolJobs'), ready |-> rdy]
    /\ poolpc' = "idle"

InitPool ==
    /\ descriptors = EmptyDescriptors
    /\ loop = EmptyDescriptors
    /\ NoJob
    /\ NoPool
    /\ NoRoundTrip
    /\ NoOthers

\* the result of a running job reaches its socket
Arrive ==
    \E j \in Jobs :
        /\ jobState[j] = "running"
        /\ j \notin Range(arrived)
        /\ arrived' = Append(arrived, j)
        /\ UNCHANGED <<poolJobs, poolHandlers, jobState, handed, poolpc, poolcall>>
        /\ UNCHANGED <<descVars, jobVars, rabbitVars, callVars, serVars, otherVars>>

\* Pool::add: the job is started, with or without success, and inserted
add ==
    \E j \in Jobs, started \in BOOLEAN :
        /\ poolpc = "idle"
        /\ jobState' = IF jobState[j] = "initialize" /\ started
                       THEN [jobState EXCEPT ![j] = "running"] ELSE jobState
        /\ poolJobs' = poolJobs \cup {j}
        /\ poolHandlers' = poolHandlers \cup {j}
        /\ handed' = <<>>
        /\ poolcall' = [op |-> "add", ret |-> {}, before |-> Cardinality(poolJobs),
                        after |-> Cardinality(poolJobs'), ready |-> {}]
        /\ UNCHANGED <<arrived, poolpc>>
        /\ UNCHANGED <<descVars, jobVars, rabbitVars, callVars, serVars, otherVars>>

\* Pool::fetch: steps without blocking until no socket is active, then
\* extracts
fetch ==
    /\ poolpc = "idle"
    /\ IF poolHandlers = {}
       THEN /\ poolcall' = [op |-> "fetch", ret |-> {}, before |-> Cardinality(poolJobs),
                            after |-> Cardinality(poolJobs), ready |-> {}]
            /\ UNCHANGED <<poolJobs, jobState, handed, poolpc>>
       ELSE /\ jobState' = Finish(Unread)
            /\ HandOut("fetch", extract(poolJobs, jobState'), Cardinality(poolJobs),
                       {j \in poolJobs : jobState[j] = "finished"})
    /\ UNCHANGED <<poolHandlers, arrived>>
    /\ UNCHANGED <<descVars, jobVars, rabbitVars, callVars, serVars, otherVars>>

\* Pool::wait up to its loop
poolWait ==
    /\ poolpc = "idle"
    /\ poolcall' = [op |-> "wait", ret |-> {}, before |-> Cardinality(poolJobs),
                    after |-> Cardinality(poolJobs),
                    ready |-> {j \in poolJobs : jobState[j] = "finished"}]
    /\ poolpc' = IF poolHandlers = {} THEN "idle" ELSE "wait"
    /\ UNCHANGED <<poolJobs, poolHandlers, jobState, arrived, handed>>
    /\ UNCHANGED <<descVars, jobVars, rabbitVars, callVars, serVars, otherVars>>

\* Pool::wait: no job is left, the handlers are cleared, null is returned
waitEmpty ==
    /\ poolpc = "wait"
    /\ poolJobs = {}
    /\ poolHandlers' = {}
    /\ poolpc' = "idle"
    /\ UNCHANGED <<poolJobs, jobState, arrived, handed, poolcall>>
    /\ UNCHANGED <<descVars, jobVars, rabbitVars, callVars, serVars, otherVars>>

\* Pool::wait: a job is ready and is returned
waitExtract ==
    /\ poolpc = "wait"
    /\ poolJobs # {}
    /\ extract(poolJobs, jobState) # {}
    /\ HandOut("wait", extract(poolJobs, jobState), poolcall.before, poolcall.ready)
    /\ UNCHANGED <<poolHandlers, jobState, arrived>>
    /\ UNCHANGED <<descVars, jobVars, rabbitVars, callVars, serVars, otherVars>>

\* Pool::wait: no job is ready, one blocking step of the loop; the handlers
\* read what is at the active socket, the results of one or more jobs
waitStep ==
    /\ poolpc = "wait"
    /\ poolJobs # {}
    /\ extract(poolJobs, jobState) = {}
    /\ \E S \in SUBSET Unread :
        /\ S # {}
        /\ jobState' = Finish(S)
    /\ UNCHANGED <<poolJobs, poolHandlers, arrived, handed, poolpc, poolcall>>
    /\ UNCHANGED <<descVars, jobVars, rabbitVars, callVars, serVars, otherVars>>

NextPool == Arrive \/ add \/ fetch \/ poolWait \/ waitEmpty \/ waitExtract \/ waitStep

\* the results arrive and a call that can go on does go on
SpecPool ==
    /\ InitPool
    /\ [][NextPool]_vars
    /\ WF_vars(Arrive)
    /\ WF_vars(waitEmpty)
    /\ WF_vars(waitExtract)
    /\ WF_vars(waitStep)

\* Pool::size and Pool::count: the size of the map
poolSize == Cardinality(poolJobs)

(***************************************************************************)
(* C35: every job that a pool holds is finished or running, so that it     *)
(* can still receive its result: Pool::add keeps no job whose start()      *)
(* failed, and a Pool::wait that has begun returns.                        *)
(***************************************************************************)
C35_PoolJobsCanFinish ==
    /\ [](\A j \in poolJobs : jobState[j] \in {"running", "finished"})
    /\ (poolpc = "wait") ~> (poolpc = "idle")

(***************************************************************************)
(* C26: between the calls of the pool, Pool::size is the number of jobs    *)
(* of the pool that are still running; a job that finished and was not     *)
(* handed out by wait or fetch yet is not counted.                         *)
(***************************************************************************)
C26_SizeCountsRunning ==
    poolpc = "idle" =>
        poolSize = Cardinality({j \in poolJobs : jobState[j] # "finished"})

\* a call of the pool that hands out jobs was the last call and returned
Handed == poolpc = "idle" /\ poolcall.op \in {"wait", "fetch"}

\* what holds of every Pool::wait that returned
PoolWaitReturned ==
    (poolpc = "idle" /\ poolcall.op = "wait") =>
        /\ Cardinality(poolJobs) = poolcall.after
        /\ IF poolcall.ret # {}
           THEN /\ poolcall.after = poolcall.before - 1
                /\ poolcall.ret \cap poolJobs = {}
           ELSE poolcall.before = 0
        /\ \A i \in 1 .. Len(handed), k \in 1 .. Len(handed) :
                i # k => handed[i].job # handed[k].job

(***************************************************************************)
(* C5: for a pool of N started jobs whose results all arrive, every        *)
(* Pool::wait that returns a job decreases size() by exactly one, the      *)
(* jobs returned by successive calls are distinct, null is returned only   *)
(* by a call that found the pool empty, and every call returns.            *)
(***************************************************************************)
C5_PoolWait ==
    /\ []PoolWaitReturned
    /\ (poolpc = "wait" /\ \A j \in poolJobs : jobState[j] # "initialize")
            ~> (poolpc = "idle")

\* all the jobs were handed out by Pool::wait, and one more call returned
\* null
C5_Witness ==
    /\ poolpc = "idle"
    /\ poolcall.op = "wait"
    /\ poolcall.ret = {}
    /\ Len(handed) = MaxJobs
    /\ \A i \in 1 .. Len(handed) : handed[i].op = "wait"

(***************************************************************************)
(* C6, as claimed: the pool hands out finished jobs in the order in which  *)
(* their results arrived: of two jobs of the pool that are both finished   *)
(* when the call is made, the one whose result arrived first is returned   *)
(* first.                                                                  *)
(***************************************************************************)
C6_ArrivalOrder ==
    Handed =>
        \A r \in poolcall.ret, k \in poolcall.ready :
            (r \in poolcall.ready /\ k # r) => Pos(arrived, r) < Pos(arrived, k)

(***************************************************************************)
(* C6, amended: Pool::wait and Pool::fetch hand out, of the jobs of the    *)
(* pool that are finished when the pool is searched, the one that comes    *)
(* first in the order of the pool's map, which is the order of the         *)
(* addresses of the job objects; neither the order in which the results    *)
(* arrived nor the insertion order decides between finished jobs.          *)
(***************************************************************************)
C6_MapOrder ==
    Handed =>
        \A r \in poolcall.ret :
            /\ jobState[r] = "finished"
            /\ \A k \in poolJobs : jobState[k] = "finished" => r < k

\* a job was handed out while a job whose result had arrived earlier, and
\* that was finished too when the call was made, stays in the pool
C6_Witness ==
    /\ Handed
    /\ \E r \in poolcall.ret, k \in poolJobs :
        /\ r \in poolcall.ready
        /\ k \in poolcall.ready
        /\ Pos(arrived, k) < Pos(arrived, r)

(***************************************************************************)
(* Serialization (serialized.h, job.h) of a job and the descriptor it      *)
(* carries (data.h).  The descriptor is a JSON object of which the members *)
(* "mapper", "reducer" and "input" are modelled; "input" is absent, a      *)
(* string or an array of objects.  The member _input of Data is the array  *)
(* that the appenders extend and then set as "input".                      *)
(***************************************************************************)
\* the directory of the job below the mount point, Directory::relative()
TempDir == "tmp"

\* "input" when the member does not exist
NoInput == [type |-> "absent", path |-> "", items |-> <<>>]

\* Data::directory(path): set("input", path)
StringInput(path) == [type |-> "string", path |-> path, items |-> <<>>]

\* set("input", _input)
ArrayInput(items) == [type |-> "array", path |-> "", items |-> items]

\* Data::Data(cache, algo) followed by the body of JobImpl::JobImpl(rabbit,
\* cache, algo): the descriptor and the member _input of a new job
NewData(alg) ==
    IF alg = "mapreduce"
    THEN LET items == <<[member |-> "directory", value |-> TempDir, ids |-> <<>>]>>
         IN  [json |-> [mapper |-> TRUE, reducer |-> TRUE, tuned |-> {},
                        input |-> ArrayInput(items)],
              input |-> items]
    ELSE [json |-> [mapper |-> FALSE, reducer |-> FALSE, tuned |-> {},
                    input |-> StringInput(TempDir)],
          input |-> <<>>]

\* Data::add, Data::kv, Data::file, Data::directory(dirname, remove,
\* server): an object is appended to _input, which is set as "input"; ids
\* are the inputs of the caller that the object carries, numbered in the
\* order in which the caller emitted them
Appended(impl, member, value, ids) ==
    LET items == Append(impl.input, [member |-> member, value |-> value, ids |-> ids])
    IN  [impl EXCEPT !.input = items, !.json.input = ArrayInput(items)]

\* the knobs in the order in which the descriptor lists them
KnobNames == <<"maxprocesses", "maxmappers", "maxreducers", "maxfinalizers", "modulo",
               "maxfiles", "maxbytes", "maxrecords", "local">>

\* JSON::Object::toString of the descriptor: the members that exist
JobText(js) ==
    <<<<"limits", "object", SelectSeq(KnobNames, LAMBDA k : k \in js.tuned)>>>>
    \o (IF js.mapper THEN <<<<"mapper", "object", <<>>>>>> ELSE <<>>)
    \o (IF js.reducer THEN <<<<"reducer", "object", <<>>>>>> ELSE <<>>)
    \o (IF js.input.type = "string" THEN <<<<"input", "string", <<js.input.path>>>>>>
        ELSE IF js.input.type = "array" THEN <<<<"input", "array", js.input.items>>>>
        ELSE <<>>)

\* the settings a composite connection emits
ConnectionText == <<<<"address", "string", <<"amqp://broker">>>>>>

\* the string of Serialized: {"job": ..., "connection": ...}
EnvelopeText(js) == <<<<"job", "object", JobText(js)>>, <<"connection", "object", ConnectionText>>>>

\* JSON::Object::contains on a parsed text
contains(members, name) == \E i \in 1 .. Len(members) : members[i][1] = name

\* the value of a member of a parsed text that contains it
Member(members, name) ==
    members[CHOOSE i \in 1 .. Len(members) : members[i][1] = name]

\* JSON::Object::object(name): the member, or an empty object
object(members, name) ==
    IF contains(members, name) /\ Member(members, name)[2] = "object"
    THEN Member(members, name)[3] ELSE <<>>

\* JSON::Object::isArray(name)
isArray(members, name) == contains(members, name) /\ Member(members, name)[2] = "array"

\* JSON::Object::array(name): the member, or an empty array
array(members, name) == IF isArray(members, name) THEN Member(members, name)[3] ELSE <<>>

\* the descriptor that a parsed text stands for
Parsed(members) ==
    [mapper  |-> contains(members, "mapper"),
     reducer |-> contains(members, "reducer"),
     tuned   |-> Range(object(members, "limits")),
     input   |-> IF ~contains(members, "input") THEN NoInput
                 ELSE IF isArray(members, "input") THEN ArrayInput(array(members, "input"))
                 ELSE StringInput(Member(members, "input")[3][1])]

\* Data::Data(object): the algorithm is derived from the members
DerivedAlgorithm(members) ==
    IF contains(members, "mapper") /\ contains(members, "reducer") THEN "mapreduce"
    ELSE IF contains(members, "input") THEN "race"
    ELSE "job"

\* Data::directory() const: the first entry of the array "input" that has a
\* member "directory"; the empty sequence stands for nullptr
directoryOf(members) ==
    IF ~isArray(members, "input") THEN <<>>
    ELSE LET items == array(members, "input")
             dirs == {i \in 1 .. Len(items) : items[i].member = "directory"}
         IN  IF dirs = {} THEN <<>> ELSE <<items[Smallest(dirs)].value>>

\* names of files and directories that a script passes
Names == {"a"}

\* the sequences of a sequence, one after the other
RECURSIVE Flatten(_)
Flatten(seqs) ==
    IF seqs = <<>> THEN <<>> ELSE Head(seqs) \o Flatten(Tail(seqs))

\* the public call op returns ret and leaves the job as now
Called(now, op, ret) ==
    [now EXCEPT !.last = [op |-> op, ret |-> ret]]

\* the knobs that a script sets here: one that only a job in initialize
\* takes and one that a frozen job takes as well
TunedKnobs == {"modulo", "local"}

\* JobImpl::datafile: the job with the data file that add() writes to; ok
\* tells whether constructing the output file succeeds; a frozen job needs
\* its directory for it
Datafile(impl, ok) ==
    IF impl.datafile.kind # "none" THEN impl
    ELSE IF impl.state = "initialize"
    THEN (IF ok THEN [impl EXCEPT !.datafile = [kind |-> "target", records |-> <<>>]]
          ELSE impl)
    ELSE IF impl.state # "frozen" THEN impl
    ELSE IF ok /\ impl.creatable
    THEN [impl EXCEPT !.datafile = [kind |-> "file", records |-> <<>>]]
    ELSE impl

\* JobImpl::sync: the data file is flushed; a file of the target that went
\* to the cache (cached) is listed in the descriptor as a "cache://" file
\* and closed; any other file is now on disk, in the directory of the job
Sync(impl, keep, cached) ==
    IF impl.datafile.kind = "none" THEN impl
    ELSE IF impl.datafile.kind = "target" /\ cached
    THEN [Appended(impl, "filename", "cache", impl.datafile.records)
            EXCEPT !.datafile = [kind |-> "none", records |-> <<>>]]
    ELSE [impl EXCEPT !.disk = Append(@, impl.datafile.records),
                      !.datafile = IF keep THEN [@ EXCEPT !.records = <<>>]
                                   ELSE [kind |-> "none", records |-> <<>>]]

\* JobImpl::add without the test of the state where no data file is
\* available: the record goes into the descriptor
AddToJson(impl, member, ok) ==
    LET op == IF member = "key" THEN "addkv" ELSE "add"
        id == impl.emitted + 1
        opened == Datafile(impl, ok)
    IN  IF impl.state = "running" \/ impl.state = "finished"
        THEN Called(impl, op, FALSE)
        ELSE IF member = "key" /\ impl.algorithm # "mapreduce"
        THEN Called(impl, op, FALSE)
        ELSE IF opened.datafile.kind = "none"
        THEN Called([Appended(impl, member, "inline", <<id>>)
                        EXCEPT !.emitted = id], op, TRUE)
        ELSE Called([opened EXCEPT !.datafile.records = Append(@, id),
                                   !.emitted = id], op, TRUE)

\* JobImpl::add(data) for member "data" and JobImpl::add(key, value, server)
\* for member "key"
Add(impl, member, ok) ==
    LET op == IF member = "key" THEN "addkv" ELSE "add"
        id == impl.emitted + 1
        opened == Datafile(impl, ok)
    IN  IF impl.state = "running" \/ impl.state = "finished"
        THEN Called(impl, op, FALSE)
        ELSE IF member = "key" /\ impl.algorithm # "mapreduce"
        THEN Called(impl, op, FALSE)
        ELSE IF opened.datafile.kind = "none"
        THEN (IF impl.state # "initialize" THEN Called(impl, op, FALSE)
              ELSE Called([Appended(impl, member, "inline", <<id>>)
                              EXCEPT !.emitted = id], op, TRUE))
        ELSE Called([opened EXCEPT !.datafile.records = Append(@, id),
                                   !.emitted = id], op, TRUE)

\* JobImpl::file and JobImpl::directory without the test of the state
FileAnyState(impl, member, name) ==
    LET op == IF member = "directory" THEN "directory" ELSE "file"
        id == impl.emitted + 1
    IN  Called([Appended(impl, member, name, <<id>>) EXCEPT !.emitted = id], op, TRUE)

\* JobImpl::file for member "filename" and JobImpl::directory for member
\* "directory"
File(impl, member, name) ==
    LET op == IF member = "directory" THEN "directory" ELSE "file"
        id == impl.emitted + 1
    IN  IF impl.state # "initialize" THEN Called(impl, op, FALSE)
        ELSE Called([Appended(impl, member, name, <<id>>) EXCEPT !.emitted = id], op, TRUE)

\* JobImpl::flush
Flush(impl, cached) ==
    IF impl.datafile.kind = "none" THEN Called(impl, "flush", FALSE)
    ELSE Called(Sync(impl, FALSE, cached), "flush", TRUE)

\* the condition under which the setter of knob k writes the descriptor
KnobAllowed(k, st) ==
    IF k \in {"maxfiles", "maxbytes", "maxrecords", "local"} THEN isTunable(st)
    ELSE st = "initialize"

\* a setter of the descriptor, on the job impl
Tune(impl, k) ==
    IF KnobAllowed(k, impl.state)
    THEN Called([impl EXCEPT !.json.tuned = @ \cup {k}], k, TRUE)
    ELSE Called(impl, k, FALSE)

\* JobImpl::start for a job with a connection: the temporary queue cannot
\* be made ("refused"), or the data file is synchronized and the descriptor
\* is published ("published") or not ("unpublished")
Start(impl, cached, how) ==
    IF impl.state = "running" \/ impl.state = "finished"
    THEN Called(impl, "start", TRUE)
    ELSE IF how = "refused" THEN Called(impl, "start", FALSE)
    ELSE IF how = "published"
    THEN Called([Sync(impl, FALSE, cached) EXCEPT !.state = "running"], "start", TRUE)
    ELSE Called(Sync(impl, FALSE, cached), "start", FALSE)

\* JobImpl::JobImpl(rabbit, cache, algo) on a host where the mount point is
\* or is not configured and where the directory of the job, below the mount
\* point, can or cannot be created
InitSerialize ==
    /\ \E alg \in Algorithms, m \in BOOLEAN, c \in BOOLEAN :
          /\ c => m
          /\ original = [NoImpl EXCEPT !.algorithm = alg, !.state = "initialize",
                                    !.mounted = m, !.creatable = c,
                                    !.directory = TempDir,
                                    !.json = NewData(alg).json,
                                    !.input = NewData(alg).input]
    /\ text = <<>>
    /\ copy = NoImpl
    /\ text2 = <<>>
    /\ stage = "built"
    /\ descriptors = EmptyDescriptors
    /\ loop = EmptyDescriptors
    /\ NoJob
    /\ NoPool
    /\ NoOthers

\* the variables that the round trip leaves alone
NoConnection == UNCHANGED <<descVars, jobVars, rabbitVars, callVars, poolVars, otherVars>>

\* a call on the job that was built, before or after it is serialized, and
\* a call on the job that was unserialized; the two jobs together emit at
\* most MaxInputs inputs
OnOriginal(now) ==
    /\ stage \in {"built", "serialized"}
    /\ now.emitted <= MaxInputs
    /\ original' = now
    /\ UNCHANGED <<text, copy, text2, stage>>
    /\ NoConnection

OnCopy(now) ==
    /\ stage = "unserialized"
    /\ original.emitted + now.emitted <= MaxInputs
    /\ copy' = now
    /\ UNCHANGED <<original, text, text2, stage>>
    /\ NoConnection

\* JobImpl::file on the job that was built
file ==
    \E name \in Names : OnOriginal(File(original, "filename", name))

\* JobImpl::directory on the job that was built
directory ==
    \E name \in Names : OnOriginal(File(original, "directory", name))

\* JobImpl::add(data) on the job that was built
addData ==
    \E ok \in BOOLEAN : OnOriginal(Add(original, "data", ok))

\* JobImpl::add(data) and JobImpl::add(key, value, server) on the job that
\* was unserialized
addFrozen ==
    \E member \in {"data", "key"}, ok \in BOOLEAN : OnCopy(Add(copy, member, ok))

\* JobImpl::file and JobImpl::directory on the job that was unserialized
fileFrozen ==
    \E member \in {"filename", "directory"}, name \in Names :
        OnCopy(File(copy, member, name))

\* JobImpl::flush on the job that was unserialized
flushFrozen ==
    \E cached \in BOOLEAN : OnCopy(Flush(copy, cached))

\* Job::serialize: JobImpl::directory creates the directory, or fails to,
\* and yields its name below the mount point; Serialized(impl) throws when
\* there is no such name
serialize ==
    /\ stage = "built"
    /\ IF original.mounted
       THEN text' = EnvelopeText(original.json) /\ stage' = "serialized"
       ELSE text' = text /\ stage' = "refused"
    /\ UNCHANGED <<original, copy, text2>>
    /\ NoConnection

\* Job::unserialize: Serialized(buffer, size) and JobImpl(object); NotNull
\* throws when the descriptor names no directory
unserialize ==
    /\ stage = "serialized"
    /\ LET job == object(text, "job")
           dir == directoryOf(job)
       IN  IF dir = <<>>
           THEN copy' = copy /\ stage' = "rejected"
           ELSE /\ copy' = [NoImpl EXCEPT !.algorithm = DerivedAlgorithm(job),
                                          !.state = "frozen",
                                          !.mounted = original.mounted,
                                          !.creatable = original.creatable,
                                          !.directory = dir[1],
                                          !.json = Parsed(job),
                                          !.input = array(job, "input")]
                /\ stage' = "unserialized"
    /\ UNCHANGED <<original, text, text2>>
    /\ NoConnection

\* Job::serialize of the unserialized job
reserialize ==
    /\ stage = "unserialized"
    /\ IF copy.mounted
       THEN text2' = EnvelopeText(copy.json) /\ stage' = "done"
       ELSE text2' = text2 /\ stage' = "refused"
    /\ UNCHANGED <<original, text, copy>>
    /\ NoConnection

NextSerialize ==
    \/ file \/ directory \/ addData \/ addFrozen \/ fileFrozen \/ flushFrozen
    \/ serialize \/ unserialize \/ reserialize

SpecSerialize == InitSerialize /\ [][NextSerialize]_vars

(***************************************************************************)
(* C3: for a job of any algorithm, serializing it, unserializing the       *)
(* string and serializing the result again yields a string of which the    *)
(* member "job" has the same members as that of the first string; the      *)
(* unserialize step does not fail.                                         *)
(***************************************************************************)
C3_RoundTrip ==
    /\ stage # "rejected"
    /\ stage = "done" => Range(object(text2, "job")) = Range(object(text, "job"))

(***************************************************************************)
(* C17: a frozen job stays frozen and keeps the descriptor that it was     *)
(* unserialized from; every record that add(data) or add(key, value) took  *)
(* is in a file of the directory of the job, open or flushed, and an add   *)
(* succeeds only where such a file can be made.                            *)
(***************************************************************************)
C17_FrozenAddToFile ==
    copy.state # "none" =>
        /\ copy.state = "frozen"
        /\ copy.json = Parsed(object(text, "job"))
        /\ copy.input = array(object(text, "job"), "input")
        /\ copy.datafile.kind \in {"none", "file"}
        /\ Len(copy.datafile.records) + Len(Flatten(copy.disk)) = copy.emitted
        /\ (copy.last.op \in {"add", "addkv"} /\ copy.last.ret) =>
              (copy.creatable /\ copy.datafile.kind = "file"
               /\ copy.datafile.records # <<>>)
        /\ ~copy.creatable => copy.emitted = 0

\* a frozen mapreduce job took a key and a value after a first record
C17_Witness ==
    /\ copy.state = "frozen"
    /\ copy.last = [op |-> "addkv", ret |-> TRUE]
    /\ Len(copy.datafile.records) = 2

(***************************************************************************)
(* C19: once a job is serialized it is frozen, and the descriptor that it  *)
(* holds stays the one that was serialized: no later call alters it.       *)
(***************************************************************************)
C19_SerializeFreezes ==
    stage = "serialized" =>
        /\ original.state = "frozen"
        /\ EnvelopeText(original.json) = text

(***************************************************************************)
(* C20: a job of which the directory cannot be created is not serialized:  *)
(* serialize is refused and yields no envelope.                            *)
(***************************************************************************)
C20_NoDirectoryNoEnvelope ==
    ~original.creatable => (stage # "serialized" /\ text = <<>>)

(***************************************************************************)
(* Specification of the input of a job: a script builds a job, feeds it    *)
(* with add, file, directory and flush, sets knobs, starts it, and the     *)
(* result arrives.                                                         *)
(***************************************************************************)

\* JobImpl::add(key, value, server)
addKv ==
    \E ok \in BOOLEAN : OnOriginal(Add(original, "key", ok))

\* JobImpl::flush
flushInput ==
    \E cached \in BOOLEAN : OnOriginal(Flush(original, cached))

\* a setter of the descriptor
tune ==
    \E k \in TunedKnobs :
        /\ KnobAllowed(k, original.state) =>
              (k \in original.json.tuned \/ Cardinality(original.json.tuned) < MaxTuned)
        /\ OnOriginal(Tune(original, k))

\* JobImpl::start
startInput ==
    \E cached \in BOOLEAN, how \in {"refused", "unpublished", "published"} :
        OnOriginal(Start(original, cached, how))

\* JobImpl::onReceived and JobImpl::onError: the job is over
finishInput ==
    /\ original.state = "running"
    /\ OnOriginal([original EXCEPT !.state = "finished"])

NextInput ==
    \/ file \/ directory \/ addData \/ addKv \/ flushInput \/ tune \/ startInput
    \/ finishInput

SpecInput == InitSerialize /\ [][NextInput]_vars

\* the inputs that the descriptor of the job presents, in the order of the
\* descriptor: an entry stands for the inputs that it holds, the entry of
\* the directory of the job for the files that sync left there
Presented(impl) ==
    LET items == impl.json.input.items
        held(item) == IF item.member = "directory" /\ item.value = TempDir
                      THEN Flatten(impl.disk) ELSE item.ids
    IN  IF impl.json.input.type = "array"
        THEN Flatten([i \in 1 .. Len(items) |-> held(items[i])])
        ELSE IF impl.json.input.type = "string" THEN Flatten(impl.disk)
        ELSE <<>>

(***************************************************************************)
(* C16: the inputs that the descriptor of a running job presents are in    *)
(* the order in which the script emitted them: none that was emitted       *)
(* earlier comes after one that was emitted later.                         *)
(***************************************************************************)
C16_EmissionOrder ==
    original.state = "running" =>
        \A i, j \in 1 .. Len(Presented(original)) :
            i < j => Presented(original)[i] < Presented(original)[j]

\* the calls that append input or set a knob
MutatorOps == {"add", "addkv", "file", "directory"} \cup TunedKnobs

(***************************************************************************)
(* C18: a call of add(data), add(key, value), file, directory or a knob    *)
(* setter on a job that is running or finished returns false and leaves    *)
(* the state, the descriptor and the data file of the job as they were.    *)
(***************************************************************************)
C18_NoMutationOnceStarted ==
    [][(/\ original.state \in {"running", "finished"}
        /\ original'.last # original.last
        /\ original'.last.op \in MutatorOps)
       => (/\ ~original'.last.ret
           /\ original'.state = original.state
           /\ original'.json = original.json
           /\ original'.input = original.input
           /\ original'.datafile = original.datafile
           /\ original'.disk = original.disk)]_vars

\* a finished mapreduce job was asked to take a key and a value
C18_Witness ==
    /\ original.state = "finished"
    /\ original.algorithm = "mapreduce"
    /\ original.last = [op |-> "addkv", ret |-> FALSE]

(***************************************************************************)
(* The composite connection (connection.h): a script constructs it from    *)
(* parameters, serializes it, unserializes the string into a new object    *)
(* and serializes that.                                                    *)
(***************************************************************************)
\* the settings, in the order in which __construct stores them
SettingNames == <<"address", "exchange", "mapreduce", "races", "jobs", "cache",
                  "maxcache", "ttl">>

\* the settings that are numbers
Numeric == {"maxcache", "ttl"}

\* Php::ini_get("yothalot.<name>")
Ini(name) == <<"ini", name>>

\* the value that a script passes for a setting
Given(name) == <<"given", name>>

\* __construct: the parameter when the script passes it, the ini setting
\* when it does not
Chosen(given, name) == IF name \in given THEN Given(name) ELSE Ini(name)

\* JSON::Object::set for every setting, in order: name and value
Stored(given) ==
    [i \in 1 .. Len(SettingNames) |->
        [name |-> SettingNames[i], value |-> Chosen(given, SettingNames[i])]]

\* the conversion of a JSON::Object to std::string
ObjectText(js) ==
    [i \in 1 .. Len(js) |->
        <<js[i].name, IF js[i].name \in Numeric THEN "integer" ELSE "string",
          <<js[i].value>>>>]

\* unserialize: the member of the parsed string, or the ini setting under
\* the name that unserialize looks up for it
Extracted(members, name) ==
    IF contains(members, name) THEN Member(members, name)[3][1]
    ELSE IF name = "races" THEN Ini("jobs")
    ELSE Ini(name)

\* the arguments of Rabbit::Rabbit
RabbitSettings == {"address", "exchange", "mapreduce", "races", "jobs"}

\* the arguments of Cache::Cache
CacheSettings == {"cache", "maxcache", "ttl"}

InitConnection ==
    /\ connection = NoConnectionObject
    /\ descriptors = EmptyDescriptors
    /\ loop = EmptyDescriptors
    /\ NoJob
    /\ NoPool
    /\ NoRoundTrip
    /\ worker = NoWorker
    /\ data = NoData
    /\ looping = NoLooping
    /\ shared = NoShared

\* the variables that a connection object does not hold
NoJobs ==
    UNCHANGED <<descVars, jobVars, rabbitVars, callVars, poolVars, serVars, worker, data,
               looping, shared>>

\* Connection::__construct; Rabbit::Rabbit or Cache::Cache may throw
construct ==
    /\ connection.stage = "none"
    /\ \E given \in SUBSET Range(SettingNames), made \in BOOLEAN :
          connection' =
              [connection EXCEPT
                  !.json = Stored(given),
                  !.rabbit = IF made THEN [n \in RabbitSettings |-> Chosen(given, n)]
                             ELSE <<>>,
                  !.cache = IF made THEN [n \in CacheSettings |-> Chosen(given, n)]
                            ELSE <<>>,
                  !.stage = IF made THEN "constructed" ELSE "failed"]
    /\ NoJobs

\* Connection::serialize
serializeConnection ==
    /\ connection.stage = "constructed"
    /\ connection' = [connection EXCEPT !.text = ObjectText(connection.json),
                                        !.stage = "serialized"]
    /\ NoJobs

\* Connection::unserialize on an object that Connection() made; Rabbit::Rabbit
\* or Cache::Cache may throw
unserializeConnection ==
    /\ connection.stage = "serialized"
    /\ \E made \in BOOLEAN :
          connection' =
              [connection EXCEPT
                  !.revived =
                      IF made
                      THEN [json |-> <<>>,
                            rabbit |-> [n \in RabbitSettings |-> Extracted(connection.text, n)],
                            cache |-> [n \in CacheSettings |-> Extracted(connection.text, n)]]
                      ELSE @,
                  !.stage = IF made THEN "unserialized" ELSE "failed"]
    /\ NoJobs

\* Connection::serialize of the object that was unserialized
reserializeConnection ==
    /\ connection.stage = "unserialized"
    /\ connection' = [connection EXCEPT !.text2 = ObjectText(connection.revived.json),
                                        !.stage = "done"]
    /\ NoJobs

NextConnection ==
    \/ construct \/ serializeConnection \/ unserializeConnection \/ reserializeConnection

SpecConnection == InitConnection /\ [][NextConnection]_vars

(***************************************************************************)
(* C22: the connection that is rebuilt from the string of serialize()      *)
(* serializes to the same settings as the first one.                       *)
(***************************************************************************)
C22_ConnectionRoundTrip ==
    connection.stage = "done" => connection.text2 = connection.text

(***************************************************************************)
(* The worker (init.cpp): yothalotInit runs in a process of its own, in    *)
(* the mode that is its first parameter.  Output of user code is what PHP  *)
(* would write to stdout; it is captured between ob_start and              *)
(* ob_get_clean.  Php::error raises a fatal PHP error, which ends the      *)
(* process with a failure status.                                          *)
(***************************************************************************)
\* the modes, and a parameter that is none of them
Modes == {"mapper", "reducer", "finalizer", "run", "other"}

\* the largest number of files that the input tells to include
MaxIncludes == 2

InitWorker ==
    /\ \E m \in Modes, n \in 0 .. MaxIncludes, d \in BOOLEAN, o \in BOOLEAN :
          worker = [mode |-> m, pc |-> "includes", includes |-> n, data |-> d,
                    directory |-> o, stray |-> {}, reported |-> {}, null |-> FALSE,
                    status |-> "running"]
    /\ connection = NoConnectionObject
    /\ data = NoData
    /\ looping = NoLooping
    /\ shared = NoShared
    /\ descriptors = EmptyDescriptors
    /\ loop = EmptyDescriptors
    /\ NoJob
    /\ NoPool
    /\ NoRoundTrip

\* the variables that a worker does not hold
NoClient ==
    UNCHANGED <<descVars, jobVars, rabbitVars, callVars, poolVars, serVars, connection,
                data, looping, shared>>

\* Php::error << ... << std::flush about what happened at a place
Fatal(place) ==
    [worker EXCEPT !.reported = @ \cup {place}, !.status = "fatal", !.pc = "exit"]

\* return of yothalotInit with the value v
Exit(w, v) == [w EXCEPT !.status = v, !.pc = "exit"]

\* yothalotInit in a mode other than run: one round of the loop over the
\* includes; out tells whether the file writes output, found whether it
\* can be included
include ==
    /\ worker.pc = "includes" /\ worker.mode # "run" /\ worker.includes > 0
    /\ \E out \in BOOLEAN, found \in BOOLEAN :
          worker' =
              IF ~found THEN Fatal("include")
              ELSE IF out
              THEN [Fatal("include") EXCEPT !.stray = @ \cup {"include"}]
              ELSE [worker EXCEPT !.includes = @ - 1]
    /\ NoClient

\* yothalotInit in a mode other than run: the object is unserialized
unserializeObject ==
    /\ worker.pc = "includes" /\ worker.mode # "run" /\ worker.includes = 0
    /\ \E out \in BOOLEAN :
          worker' =
              IF out
              THEN [Fatal("unserialize") EXCEPT !.stray = @ \cup {"unserialize"}]
              ELSE IF worker.mode = "other" THEN Fatal("mode")
              ELSE [worker EXCEPT !.pc = "task"]
    /\ NoClient

\* what map, reduce and write need of the input before the task is made
Available(w) ==
    /\ w.mode = "mapper" => (w.data /\ w.directory)
    /\ w.mode = "reducer" => w.directory

\* map, reduce and write: the task runs between ob_start and ob_get_clean;
\* input that is missing is thrown before user code runs, output that was
\* captured is thrown after it
task ==
    /\ worker.pc = "task"
    /\ \E out \in BOOLEAN :
          worker' =
              IF ~Available(worker) THEN Fatal("task")
              ELSE IF out
              THEN [Fatal("process") EXCEPT !.stray = @ \cup {"process"}]
              ELSE Exit(worker, "0")
    /\ NoClient

\* run, up to the call of process: the files are included after ob_start,
\* so that their output is captured with that of process
runIncludes ==
    /\ worker.pc = "includes" /\ worker.mode = "run" /\ worker.includes > 0
    /\ \E out \in BOOLEAN, found \in BOOLEAN :
          worker' =
              IF ~found THEN Fatal("include")
              ELSE [worker EXCEPT !.includes = @ - 1,
                                  !.stray = IF out THEN @ \cup {"include"} ELSE @]
    /\ NoClient

\* run, from the call of process: a result that is null ends run with 0
\* before the captured output is looked at
runProcess ==
    /\ worker.pc = "includes" /\ worker.mode = "run" /\ worker.includes = 0
    /\ \E out \in BOOLEAN, isNull \in BOOLEAN :
          LET w == [worker EXCEPT !.null = isNull,
                                  !.stray = IF out THEN @ \cup {"process"} ELSE @]
          IN  worker' =
                 IF isNull THEN Exit(w, "0")
                 ELSE IF w.stray # {}
                 THEN [w EXCEPT !.reported = w.stray, !.status = "fatal", !.pc = "exit"]
                 ELSE Exit(w, "0")
    /\ NoClient

NextWorker == include \/ unserializeObject \/ task \/ runIncludes \/ runProcess

SpecWorker == InitWorker /\ [][NextWorker]_vars

(***************************************************************************)
(* C25: in every mode, a worker whose user code wrote output outside the   *)
(* sanctioned channel ends with an error that is reported and with a       *)
(* failure status, also when process returned null in the mode run.        *)
(***************************************************************************)
C25_StrayOutputFails ==
    (worker.pc = "exit" /\ worker.stray # {}) =>
        (worker.status # "0" /\ worker.reported # {})

(***************************************************************************)
(* The knobs of the descriptor (data.h, jobimpl.h, job.h).  A member is a  *)
(* sequence: empty when the member is absent, else its one value.  The     *)
(* value of an executable (mapper, reducer, finalizer) is its limit        *)
(* object.                                                                 *)
(***************************************************************************)
\* the largest value that a script passes to a knob
MaxValue == 2

\* the values that a script passes
Values == -1 .. MaxValue

\* Data::Executable: the limit object is empty
Executable == <<[processes |-> <<>>]>>

\* Data::Data(cache, algo): the members that the knobs write
NewJson(alg) ==
    IF alg = "mapreduce"
    THEN [processes |-> <<20>>, modulo |-> <<1>>, mapper |-> Executable,
          reducer |-> Executable, finalizer |-> Executable]
    ELSE NoData.json

\* object(name).object("limit").set("processes", value): object(name) of a
\* member that is absent is a new object that the descriptor does not hold
SetLimit(exe, value) == IF exe = <<>> THEN <<>> ELSE <<[processes |-> <<value>>]>>

Data_maxprocesses(js, value) == [js EXCEPT !.processes = <<value>>]

Data_maxmappers(js, value) == [js EXCEPT !.mapper = SetLimit(@, value)]

Data_maxreducers(js, value) == [js EXCEPT !.reducer = SetLimit(@, value)]

\* mutant of Data_maxfinalizers: zero is a limit like any other
Data_maxfinalizersKept(js, value) == [js EXCEPT !.finalizer = SetLimit(@, value)]

\* Data::maxfinalizers: zero removes the member
Data_maxfinalizers(js, value) ==
    IF value = 0 THEN [js EXCEPT !.finalizer = <<>>]
    ELSE [js EXCEPT !.finalizer = SetLimit(@, value)]

Data_modulo(js, value) == [js EXCEPT !.modulo = <<value>>]

\* std::max(least, value) of the wrappers in Job
AtLeast(least, value) == IF value < least THEN least ELSE value

\* a setter of JobImpl called through Job with a value: it is refused
\* unless the job is in initialize
Setter(op, value, js) ==
    IF data.state # "initialize"
    THEN [data EXCEPT !.last = [op |-> op, value |-> value, ret |-> FALSE]]
    ELSE [data EXCEPT !.json = js, !.last = [op |-> op, value |-> value, ret |-> TRUE]]

InitKnobs ==
    /\ \E alg \in Algorithms :
          data = [algorithm |-> alg, state |-> "initialize", json |-> NewJson(alg),
                  last |-> NoData.last]
    /\ connection = NoConnectionObject
    /\ worker = NoWorker
    /\ looping = NoLooping
    /\ shared = NoShared
    /\ descriptors = EmptyDescriptors
    /\ loop = EmptyDescriptors
    /\ NoJob
    /\ NoPool
    /\ NoRoundTrip

\* the variables that the knobs do not write
NoWire ==
    UNCHANGED <<descVars, jobVars, rabbitVars, callVars, poolVars, serVars, connection,
                worker, looping, shared>>

setMaxprocesses ==
    /\ \E v \in Values :
          data' = Setter("maxprocesses", v, Data_maxprocesses(data.json, AtLeast(1, v)))
    /\ NoWire

setMaxmappers ==
    /\ \E v \in Values :
          data' = Setter("maxmappers", v, Data_maxmappers(data.json, AtLeast(1, v)))
    /\ NoWire

setMaxreducers ==
    /\ \E v \in Values :
          data' = Setter("maxreducers", v, Data_maxreducers(data.json, AtLeast(1, v)))
    /\ NoWire

setMaxfinalizers ==
    /\ \E v \in Values :
          data' = Setter("maxfinalizers", v, Data_maxfinalizers(data.json, AtLeast(0, v)))
    /\ NoWire

setModulo ==
    /\ \E v \in Values :
          data' = Setter("modulo", v, Data_modulo(data.json, AtLeast(1, v)))
    /\ NoWire

\* JobImpl::freeze on a job in initialize
freeze ==
    /\ data.state = "initialize"
    /\ data' = [data EXCEPT !.state = "frozen",
                            !.last = [op |-> "serialize", value |-> 0, ret |-> TRUE]]
    /\ NoWire

NextKnobs ==
    \/ setMaxprocesses \/ setMaxmappers \/ setMaxreducers \/ setMaxfinalizers
    \/ setModulo \/ freeze

SpecKnobs == InitKnobs /\ [][NextKnobs]_vars

(***************************************************************************)
(* C27: maxfinalizers(0) on a mapreduce job that is in initialize leaves   *)
(* the descriptor without the member finalizer, and leaves every other     *)
(* member as it was.                                                       *)
(***************************************************************************)
C27_ZeroRemovesFinalizer ==
    [][(/\ data' # data
        /\ data.algorithm = "mapreduce"
        /\ data.state = "initialize"
        /\ data'.last.op = "maxfinalizers"
        /\ data'.last.value = 0)
       => /\ data'.last.ret
          /\ data'.json.finalizer = <<>>
          /\ data'.json = [data.json EXCEPT !.finalizer = <<>>]]_vars

\* maxfinalizers(0) returned on a job whose mappers and finalizers had been
\* limited before
C27_Witness ==
    /\ data.algorithm = "mapreduce"
    /\ data.last = [op |-> "maxfinalizers", value |-> 0, ret |-> TRUE]
    /\ data.json.finalizer = <<>>
    /\ data.json.mapper = <<[processes |-> <<2>>]>>
    /\ data.json.processes = <<1>>

(***************************************************************************)
(* C40: on a mapreduce job in the initialize state the last maxfinalizers  *)
(* call wins: the descriptor has a finalizer sub-object iff the last value *)
(* was greater than zero, and then its limit.processes is that value,      *)
(* whatever the earlier calls passed (0 included).                         *)
(***************************************************************************)
C40_LastMaxfinalizersWins ==
    (/\ data.algorithm = "mapreduce"
     /\ data.state = "initialize"
     /\ data.last.op = "maxfinalizers")
    => /\ data.last.ret
       /\ data.json.finalizer # <<>> <=> data.last.value > 0
       /\ data.last.value > 0 =>
             data.json.finalizer = <<[processes |-> <<data.last.value>>]>>

(***************************************************************************)
(* A Loop that is run (loop.h).  A step of the loop is one call of         *)
(* Loop::step with all that the handler it dispatches to does: the handler *)
(* adds or removes a descriptor, and it stops the loop or not.             *)
(***************************************************************************)
\* the flags of fd in what select left of the sets
FlagsOf(fd, readable, writable) ==
    (IF fd \in readable THEN {"readable"} ELSE {})
        \cup (IF fd \in writable THEN {"writable"} ELSE {})

\* mutant of Dispatch: the loop over _all goes on after the handler
RECURSIVE DispatchAll(_, _, _)
DispatchAll(all, readable, writable) ==
    IF all = {} THEN <<>>
    ELSE LET fd == Smallest(all)
         IN  (IF FlagsOf(fd, readable, writable) = {} THEN <<>>
              ELSE <<[fd |-> fd, flags |-> FlagsOf(fd, readable, writable)]>>)
             \o DispatchAll(all \ {fd}, readable, writable)

\* Loop::step, the loop over _all in the order of the set: the calls of
\* connection->process that it makes
RECURSIVE Dispatch(_, _, _)
Dispatch(all, readable, writable) ==
    IF all = {} THEN <<>>
    ELSE LET fd == Smallest(all)
         IN  IF FlagsOf(fd, readable, writable) = {}
             THEN Dispatch(all \ {fd}, readable, writable)
             ELSE <<[fd |-> fd, flags |-> FlagsOf(fd, readable, writable)]>>

\* the largest descriptor that is given to a Loop that is run
MaxLoopFd == 2

LoopFds == 1 .. MaxLoopFd

\* what select can leave of a set: descriptors below nfds = _highest + 1
Selectable(fds) == SUBSET {fd \in fds : fd <= loop.highest}

\* mutant of Stopped: Loop::stop leaves _active as it is
StoppedNever(act, stop) == act

\* Loop::_active after a handler that calls Loop::stop, or does not
Stopped(act, stop) == IF stop THEN FALSE ELSE act

InitLoop ==
    /\ looping = NoLooping
    /\ shared = NoShared
    /\ connection = NoConnectionObject
    /\ worker = NoWorker
    /\ data = NoData
    /\ descriptors = EmptyDescriptors
    /\ loop = EmptyDescriptors
    /\ NoJob
    /\ NoPool
    /\ NoRoundTrip

\* the variables that a Loop does not hold
NoOwner ==
    UNCHANGED <<descriptors, state, hasRabbit, algorithm, json, tempqueue, result, cleanup,
                rabbitVars, callVars, poolVars, serVars, connection, worker, data, shared>>

\* Loop::run is not on the stack
Outside == looping.pc \in {"idle", "done"}

\* Loop::add while the loop is not run
addIdle ==
    /\ Outside
    /\ \E fd \in LoopFds, flags \in Flags : loop' = LoopAdd(loop, fd, flags)
    /\ UNCHANGED <<active, looping>>
    /\ NoOwner

\* Loop::run up to its loop
run ==
    /\ Outside
    /\ active' = TRUE
    /\ looping' = [NoLooping EXCEPT !.pc = "run"]
    /\ UNCHANGED loop
    /\ NoOwner

\* Loop::run: _active holds and step has nothing to check; run returns
stepNothing ==
    /\ looping.pc = "run" /\ active
    /\ loop.all = {}
    /\ looping' = [looping EXCEPT !.ready = NoLooping.ready, !.dispatched = <<>>,
                                  !.ret = FALSE, !.pc = "done"]
    /\ active' = FALSE
    /\ UNCHANGED loop
    /\ NoOwner

\* Loop::run: _active holds and step returns true without a call of the
\* handler: select failed, or errno is EINTR
stepInterrupted ==
    /\ looping.pc = "run" /\ active
    /\ loop.all # {}
    /\ looping' = [looping EXCEPT !.ready = NoLooping.ready, !.dispatched = <<>>,
                                  !.ret = TRUE]
    /\ UNCHANGED <<loop, active>>
    /\ NoOwner

\* Loop::run: _active holds; step up to the return of select, which
\* reports descriptors of the sets it was given
select ==
    /\ looping.pc = "run" /\ active
    /\ loop.all # {}
    /\ \E readable \in Selectable(loop.read), writable \in Selectable(loop.write) :
          /\ readable \cup writable # {}
          /\ looping' = [looping EXCEPT !.pc = "selected",
                                        !.ready = [read |-> readable, write |-> writable],
                                        !.dispatched = <<>>]
    /\ UNCHANGED <<loop, active>>
    /\ NoOwner

\* Loop::step from the return of select: the loop over _all, with the
\* handler that it calls; the handler adds or removes a descriptor, and it
\* stops the loop (stop) or not
step ==
    /\ looping.pc = "selected"
    /\ \E fd \in LoopFds, flags \in Flags, stop \in BOOLEAN :
          /\ loop' = LoopAdd(loop, fd, flags)
          /\ active' = Stopped(active, stop)
          /\ looping' = [looping EXCEPT
                            !.pc = "run",
                            !.dispatched = Dispatch(loop.all, looping.ready.read,
                                                    looping.ready.write),
                            !.ret = TRUE,
                            !.stopped = stop]
    /\ NoOwner

\* Loop::run: _active does not hold; run returns
runReturns ==
    /\ looping.pc = "run" /\ ~active
    /\ looping' = [looping EXCEPT !.pc = "done"]
    /\ active' = FALSE
    /\ UNCHANGED loop
    /\ NoOwner

NextLoop ==
    addIdle \/ run \/ stepNothing \/ stepInterrupted \/ select \/ step \/ runReturns

SpecLoop == InitLoop /\ [][NextLoop]_vars

(***************************************************************************)
(* C29: a step of the loop calls the handler at most once, for the lowest  *)
(* descriptor that select reported with the flags reported for it, and     *)
(* then returns; what select reports is taken from the sets as they are    *)
(* when the step begins, that is as the handler of the step before left    *)
(* them.                                                                   *)
(***************************************************************************)
C29_OneDispatchPerStep ==
    [][/\ looping'.pc = "selected" =>
              /\ looping'.ready.read \subseteq loop.read
              /\ looping'.ready.write \subseteq loop.write
       /\ looping.pc = "selected" =>
              LET reported == looping.ready.read \cup looping.ready.write
              IN  /\ looping'.pc = "run"
                  /\ Len(looping'.dispatched) <= 1
                  /\ looping'.dispatched =
                        <<[fd |-> Smallest(reported),
                           flags |-> FlagsOf(Smallest(reported), looping.ready.read,
                                             looping.ready.write)]>>]_vars

\* a step in which select reported two descriptors, the handler was called
\* for the lower one, and it removed that descriptor
C29_Witness ==
    /\ looping.pc = "run"
    /\ looping.ready.read = {1, 2}
    /\ looping.dispatched = <<[fd |-> 1, flags |-> {"readable"}]>>
    /\ loop.all = {2}

InitDescriptors ==
    /\ descriptors = EmptyDescriptors
    /\ loop = EmptyDescriptors
    /\ NoJob
    /\ NoPool
    /\ NoRoundTrip
    /\ NoOthers

\* Rabbit::monitor: _descriptors.add(fd, flags)
Monitor ==
    \E fd \in Fds, flags \in Flags :
        /\ descriptors' = DescriptorsAdd(descriptors, fd, flags)
        /\ UNCHANGED <<loop, jobVars, rabbitVars, callVars, poolVars, serVars, otherVars>>

Remove ==
    \E fd \in Fds :
        /\ descriptors' = DescriptorsRemove(descriptors, fd)
        /\ UNCHANGED <<loop, jobVars, rabbitVars, callVars, poolVars, serVars, otherVars>>

\* Pool::wait / Pool::fetch: descriptors.add(handler->descriptors()), with
\* the other set one that two calls of add (the second one possibly a
\* removal, flags 0) have built
Merge ==
    \E fd1 \in Fds, fd2 \in Fds, f1 \in Flags \ {{}}, f2 \in Flags :
        LET that == DescriptorsAdd(DescriptorsAdd(EmptyDescriptors, fd1, f1), fd2, f2)
        IN  /\ descriptors' = DescriptorsMerge(descriptors, that)
            /\ UNCHANGED <<loop, jobVars, rabbitVars, callVars, poolVars, serVars, otherVars>>

LoopAddFd ==
    \E fd \in Fds, flags \in Flags :
        /\ loop' = LoopAdd(loop, fd, flags)
        /\ UNCHANGED <<descriptors, jobVars, rabbitVars, callVars, poolVars, serVars, otherVars>>

LoopRemoveFd ==
    \E fd \in Fds :
        /\ loop' = LoopRemove(loop, fd)
        /\ UNCHANGED <<descriptors, jobVars, rabbitVars, callVars, poolVars, serVars, otherVars>>

NextDescriptors == Monitor \/ Remove \/ Merge \/ LoopAddFd \/ LoopRemoveFd

SpecDescriptors == InitDescriptors /\ [][NextDescriptors]_vars

(***************************************************************************)
(* C2: after any sequence of add(fd, flags), remove(fd) and merge on a     *)
(* descriptor set with non-negative descriptors, the recorded maximum is   *)
(* the largest member of 'all' (0 when 'all' is empty) and the readable    *)
(* and the writable subsets are contained in 'all'.                        *)
(***************************************************************************)
WellFormed(d) ==
    /\ d.highest = (IF d.all = {} THEN 0 ELSE Largest(d.all))
    /\ d.read \subseteq d.all
    /\ d.write \subseteq d.all

\* fd is in the readable subset of d exactly when flags asks for
\* readability, and in the writable subset exactly when flags asks for
\* writability
Classified(d, fd, flags) ==
    /\ fd \in d.read <=> "readable" \in flags
    /\ fd \in d.write <=> "writable" \in flags

(***************************************************************************)
(* C38: the classification of a descriptor follows the most recent         *)
(* add(fd, flags) with flags # 0: right after it, fd is readable in the    *)
(* set iff flags has the readable bit and writable iff flags has the       *)
(* writable bit, so an add with fewer flags drops the others.  This is     *)
(* for the set of a Rabbit (Descriptors::add) and for that of a Loop       *)
(* (Loop::add).                                                            *)
(***************************************************************************)
C38_LastAddClassifies ==
    [][\A fd \in Fds, flags \in Flags \ {{}} :
          /\ (descriptors' # descriptors /\ descriptors' = DescriptorsAdd(descriptors, fd, flags))
                => Classified(descriptors', fd, flags)
          /\ (loop' # loop /\ loop' = LoopAdd(loop, fd, flags))
                => Classified(loop', fd, flags)]_vars

C2_DescriptorSetInvariant == WellFormed(descriptors) /\ WellFormed(loop)

\* the maximum was removed from a set that keeps other members, and a set
\* was emptied
C2_Witness ==
    /\ descriptors.all # {}
    /\ descriptors.highest < MaxFd
    /\ descriptors.read # {}
    /\ descriptors.write # {}
    /\ loop.all = {} /\ loop.highest = 0

(***************************************************************************)
(* Jobs that share one broker connection (tempqueue.h, jobimpl.h)          *)
(*                                                                         *)
(* Every TempQueue has a Loop of its own (TempQueue::_loop) and all of     *)
(* them step the one connection of the Core: the wait of one job           *)
(* dispatches the handlers of every channel on the connection.  The jobs   *)
(* are races, for which JobImpl::onReceived only stores the result, and    *)
(* each temporary queue is sent one result.                                *)
(***************************************************************************)

\* both jobs were started: they are running and their queues are consumed
InitShared ==
    /\ shared = [NoShared EXCEPT
                    !.job = [j \in Pair |-> [NoSharedJob EXCEPT !.state = "running",
                                                                !.phase = "consuming"]],
                    !.up = TRUE]
    /\ connection = NoConnectionObject
    /\ worker = NoWorker
    /\ data = NoData
    /\ looping = NoLooping
    /\ descriptors = EmptyDescriptors
    /\ loop = EmptyDescriptors
    /\ NoJob
    /\ NoPool
    /\ NoRoundTrip

\* the variables that the jobs on the shared connection do not hold
NoOne ==
    UNCHANGED <<descVars, jobVars, rabbitVars, callVars, poolVars, serVars, connection,
                worker, data, looping>>

\* Loop::run of some job is on the stack and steps the connection
Stepping == shared.waiting # 0 /\ shared.up

\* JobImpl::wait has returned ret on job j, after running the loop or not
WaitReturned(j, ret, blocked) ==
    [job |-> j, ret |-> ret, blocked |-> blocked]

\* JobImpl::wait on a started job j, up to the return or to Loop::run
sharedWait ==
    /\ shared.waiting = 0
    /\ \E j \in Pair :
        LET me == shared.job[j]
        IN  IF me.state = "finished" \/ me.ready
            THEN shared' = [shared EXCEPT
                               !.last = WaitReturned(j, ~isError(me.state, "race", me.result),
                                                     FALSE)]
            ELSE shared' = [shared EXCEPT !.waiting = j, !.job[j].active = TRUE]
    /\ NoOne

\* TempQueue::onReceived of job j, which calls JobImpl::onReceived: the
\* message on the queue of j is handed to the consumer of j
sharedReceived ==
    /\ Stepping
    /\ \E j \in Pair, res \in Results :
        /\ shared.job[j].phase = "consuming"
        /\ shared' = [shared EXCEPT !.job[j].state = "finished",
                                    !.job[j].result = res,
                                    !.job[j].from = j,
                                    !.job[j].phase = "cancelling"]
    /\ NoOne

\* TempQueue::onCancelled and TempQueue::onRemoved of job j
sharedCancelled ==
    /\ Stepping
    /\ \E j \in Pair :
        \/ /\ shared.job[j].phase = "cancelling"
           /\ shared' = [shared EXCEPT !.job[j].phase = "removing"]
        \/ /\ shared.job[j].phase = "removing"
           /\ shared' = [shared EXCEPT !.job[j].phase = "closing"]
    /\ NoOne

\* TempQueue::onClosed of job j: _ready, and _loop.stop() on the Loop of j
sharedClosed ==
    /\ Stepping
    /\ \E j \in Pair :
        /\ shared.job[j].phase = "closing"
        /\ shared' = [shared EXCEPT !.job[j].phase = "closed",
                                    !.job[j].ready = TRUE,
                                    !.job[j].active = FALSE]
    /\ NoOne

\* TempQueue::onError of job j, which calls JobImpl::onError
Failed(me) ==
    [me EXCEPT !.phase = "failed", !.ready = TRUE, !.active = FALSE, !.state = "finished"]

\* the broker closes the channel of job j
sharedError ==
    /\ Stepping
    /\ \E j \in Pair :
        /\ shared.job[j].phase \in OpenPhases
        /\ shared' = [shared EXCEPT !.job[j] = Failed(@)]
    /\ NoOne

\* the broker closes the connection and every open channel is told
sharedConnectionError ==
    /\ Stepping
    /\ shared' = [shared EXCEPT
                     !.up = FALSE,
                     !.job = [j \in Pair |-> IF shared.job[j].phase \in OpenPhases
                                             THEN Failed(shared.job[j])
                                             ELSE shared.job[j]]]
    /\ NoOne

\* Rabbit::onError alone: the socket failed and the channels are not told
sharedConnectionLost ==
    /\ Stepping
    /\ shared' = [shared EXCEPT
                     !.up = FALSE,
                     !.job = [j \in Pair |-> IF shared.job[j].phase \in OpenPhases
                                             THEN [shared.job[j] EXCEPT !.phase = "lost"]
                                             ELSE shared.job[j]]]
    /\ NoOne

\* Loop::run of the waiting job ends, because its Loop was stopped or
\* because Loop::step has nothing to monitor, and JobImpl::wait returns
sharedWaitReturns ==
    /\ shared.waiting # 0
    /\ LET j  == shared.waiting
           me == shared.job[j]
       IN  /\ ~me.active \/ ~shared.up
           /\ shared' = [shared EXCEPT
                            !.waiting = 0,
                            !.job[j].active = FALSE,
                            !.last = WaitReturned(j, ~isError(me.state, "race", me.result),
                                                  TRUE)]
    /\ NoOne

NextShared ==
    \/ sharedWait
    \/ sharedReceived
    \/ sharedCancelled
    \/ sharedClosed
    \/ sharedError
    \/ sharedConnectionError
    \/ sharedConnectionLost
    \/ sharedWaitReturns

SpecShared == InitShared /\ [][NextShared]_vars

\* a result reaches job b while the wait of job a runs the loop: b is
\* finished with the result of its own queue, a is as it was and its wait
\* goes on
Isolated ==
    \A a \in Pair, b \in Pair :
        (a # b /\ shared.waiting = a /\ shared'.job[b].from # shared.job[b].from) =>
            /\ shared'.job[b].state = "finished"
            /\ shared'.job[b].from = b
            /\ shared'.job[a] = shared.job[a]
            /\ shared'.waiting = a

\* a wait on a job that is finished returns its status and runs no loop
Unblocked ==
    \A j \in Pair :
        (shared.waiting = 0 /\ shared.job[j].state = "finished" /\ shared'.last # shared.last
         /\ shared'.last.job = j) =>
            /\ ~shared'.last.blocked
            /\ shared'.last.ret = ~isError("finished", "race", shared.job[j].result)

\* the part of C34 about the other job: its result leaves the waiting job
\* alone, and the other job's later wait does not block
SharedIsolation == [][Isolated /\ Unblocked]_vars

\* C34: of two running jobs on one connection, a result for B that arrives
\* while A.wait() runs the loop finishes B with B's own result and leaves A
\* running and waiting; A.wait() returns only when A is finished (by its
\* result or its error), and a later B.wait() returns B's status without
\* running the loop.
C34_WaitIsPerJob ==
    /\ [][Isolated /\ Unblocked]_vars
    /\ [](shared.last.blocked => shared.job[shared.last.job].state = "finished")

\* B's result arrived during A.wait(), which went on with A running
SharedWitness ==
    /\ shared.waiting = 1
    /\ shared.job[1].state = "running"
    /\ shared.job[2].state = "finished" /\ shared.job[2].from = 2

====
